---------------------------- MODULE Spec2Model ----------------------------
(***************************************************************************)
(* A model of the fragmented-MP4 tools of hls.js (src/utils/mp4-tools.ts): *)
(* the byte readers and writer, the box navigator findBox, the segment     *)
(* index parser, the fragment timing functions, the SEI/caption scanner    *)
(* and the emsg/ID3 extractor.                                             *)
(*                                                                         *)
(* Numbers.  TLC evaluates integers in 32 bits, so a 32-bit unsigned word  *)
(* (up to 2^32 - 1) and a 64-bit decode time cannot be written down as     *)
(* they are.  The model keeps the layout of the code (four octets to a     *)
(* word, big-endian, two words to a 64-bit time, every offset as in the    *)
(* source) and narrows the octet to ByteBits = 7 bits: a word has 28 bits, *)
(* its sign bit is bit 27 and it wraps at WordRadix = 2^28.  Every number  *)
(* of the source that depends on the width (<< 24, & 0xff, 0x7fffffff,     *)
(* 0x80000000, 4294967296, UINT32_MAX) is derived from ByteBits below.     *)
(* Seven bits keep every ASCII code, so box types and strings are the      *)
(* source's own.                                                           *)
(*                                                                         *)
(* Buffers.  A Uint8Array is a sequence of octets; the code's index i is   *)
(* the sequence's index i + 1.  An Mp4BoxData is a record [data, start,    *)
(* end]; a bare Uint8Array handed to a function that takes either is the   *)
(* record Raw(data), whose start is 0, which is what the code's            *)
(* "'data' in buffer" branch amounts to.                                   *)
(***************************************************************************)
EXTENDS Integers, Sequences, FiniteSets, TLC

VARIABLES
  data,      \* the caller-owned byte buffer the operations work on
  written,   \* what the producer of the buffer put into it (its structure)
  initData,  \* the track table handed to the fragment operations
  op,        \* the operation that ran last
  arg,       \* its arguments other than the buffer
  ret,       \* what it returned
  calls      \* how many operations have run on this buffer

vars == <<data, written, initData, op, arg, ret, calls>>

-----------------------------------------------------------------------------
(* Octets and words *)

ByteBits == 7
Radix == 2^ByteBits
WordRadix == Radix * Radix * Radix * Radix
UINT32_MAX == WordRadix - 1

\* ECMAScript ToInt32: the word's two's-complement reading
ToInt32(x) ==
  LET m == x % WordRadix
  IN IF m >= WordRadix \div 2 THEN m - WordRadix ELSE m

\* buffer[i] inside a bitwise expression: undefined (out of range) coerces to 0
Elem(buffer, i) ==
  IF i >= 0 /\ i < Len(buffer) THEN buffer[i + 1] ELSE 0

\* buffer.subarray(begin, end): both ends clamped to the buffer
subarray(buffer, begin, end) ==
  LET b == IF begin < 0 THEN 0 ELSE IF begin > Len(buffer) THEN Len(buffer) ELSE begin
      e == IF end < 0 THEN 0 ELSE IF end > Len(buffer) THEN Len(buffer) ELSE end
  IN IF e <= b THEN <<>> ELSE SubSeq(buffer, b + 1, e)

\* a string is the sequence of its character codes
bin2str(bytes) == bytes

Raw(buffer) == [data |-> buffer, start |-> 0, end |-> Len(buffer)]

\* null, and a Uint8Array where the code has Uint8Array | null
Null == [kind |-> "null"]
Bytes(b) == [kind |-> "bytes", value |-> b]

readUint16(buffer, offset) ==
  LET o == offset + buffer.start
      val == Elem(buffer.data, o) * Radix + Elem(buffer.data, o + 1)
  IN IF val < 0 THEN Radix * Radix + val ELSE val

\* (b[o] << 24) | (b[o+1] << 16) | (b[o+2] << 8) | b[o+3]: a signed word
Int32At(bytes, o) ==
  ToInt32(Elem(bytes, o) * Radix * Radix * Radix + Elem(bytes, o + 1) * Radix * Radix
          + Elem(bytes, o + 2) * Radix + Elem(bytes, o + 3))

\* readUint32 without the correction of a negative intermediate result
readUint32NoFix(buffer, offset) == Int32At(buffer.data, offset + buffer.start)

readUint32(buffer, offset) ==
  LET val == Int32At(buffer.data, offset + buffer.start)
  IN IF val < 0 THEN WordRadix + val ELSE val

\* buffer[i] = v on a Uint8Array: v is reduced to an octet, a store outside
\* the array is dropped
Store(buffer, i, v) ==
  IF i >= 0 /\ i < Len(buffer) THEN [buffer EXCEPT ![i + 1] = v % Radix] ELSE buffer

\* the bytes of the buffer after writeUint32(buffer, offset, value)
writeUint32(buffer, offset, value) ==
  LET o == offset + buffer.start
      v == ToInt32(value)
      b0 == Store(buffer.data, o, v \div (Radix * Radix * Radix))
      b1 == Store(b0, o + 1, (v \div (Radix * Radix)) % Radix)
      b2 == Store(b1, o + 2, (v \div Radix) % Radix)
  IN Store(b2, o + 3, v % Radix)

-----------------------------------------------------------------------------
(* Reading back what was written *)

MaxWrites == 2
RwLen == 6

RwBuffers == {[i \in 1..RwLen |-> 0], [i \in 1..RwLen |-> Radix - 1]}
RwStarts == {0, 1}
RwValues ==
  {0, 1, -1, Radix + 2, WordRadix \div 2, WordRadix \div 2 + Radix,
   WordRadix - 1, WordRadix + 3, -(WordRadix \div 2) - 1, -WordRadix - 5}

RwInit ==
  /\ data \in RwBuffers
  /\ written = [kind |-> "none"]
  /\ initData = <<>>
  /\ op = "none"
  /\ arg = <<>>
  /\ ret = <<>>
  /\ calls = 0

RwWrite ==
  /\ calls < MaxWrites
  /\ \E s \in RwStarts, o \in 0..(RwLen - 4), v \in RwValues :
       /\ s + o + 4 <= Len(data)
       /\ data' = writeUint32([data |-> data, start |-> s, end |-> Len(data)], o, v)
       /\ written' = [kind |-> "word", pos |-> s + o, value |-> v]
       /\ op' = "writeUint32"
       /\ arg' = [start |-> s, offset |-> o, value |-> v]
       /\ ret' = <<>>
       /\ calls' = calls + 1
  /\ UNCHANGED initData

RwRead ==
  /\ \E s \in RwStarts, o \in 0..(RwLen - 4) :
       /\ s + o + 4 <= Len(data)
       /\ op' = "readUint32"
       /\ arg' = [start |-> s, offset |-> o]
       /\ ret' = readUint32([data |-> data, start |-> s, end |-> Len(data)], o)
  /\ UNCHANGED <<data, written, initData, calls>>

RwNext == RwWrite \/ RwRead

SpecRW == RwInit /\ [][RwNext]_vars

\* C3: a word read back at the place it was last written is the written value
\* reduced modulo the word's range, a number from 0 to UINT32_MAX, whatever
\* view the write and the read went through and whatever the sign of the value
C3_ReadAfterWrite ==
  (op = "readUint32" /\ written.kind = "word" /\ arg.start + arg.offset = written.pos)
    => (ret = written.value % WordRadix /\ ret >= 0 /\ ret <= UINT32_MAX)

C3_Witness ==
  /\ op = "readUint32"
  /\ written.kind = "word"
  /\ arg.start + arg.offset = written.pos
  /\ written.value < 0
  /\ ret >= WordRadix \div 2

-----------------------------------------------------------------------------
(* The box navigator *)

moov == <<109, 111, 111, 118>>
moof == <<109, 111, 111, 102>>
traf == <<116, 114, 97, 102>>
tfhd == <<116, 102, 104, 100>>
tfdt == <<116, 102, 100, 116>>
trun == <<116, 114, 117, 110>>
mdat == <<109, 100, 97, 116>>
sidx == <<115, 105, 100, 120>>
emsg == <<101, 109, 115, 103>>

\* findBoxFrom with the found box's end taken from its container
RECURSIVE findBoxFromContainerEnd(_, _, _, _)
findBoxFromContainerEnd(bytes, i, end, path) ==
  IF ~(i < end) THEN <<>>
  ELSE
    LET size == readUint32(Raw(bytes), i)
        type == bin2str(subarray(bytes, i + 4, i + 8))
        endbox == IF size > 1 THEN i + size ELSE end
        found ==
          IF type = path[1]
          THEN IF Len(path) = 1
               THEN <<[data |-> bytes, start |-> i + 8, end |-> end]>>
               ELSE findBoxFromContainerEnd(bytes, i + 8, endbox, Tail(path))
          ELSE <<>>
    IN found \o findBoxFromContainerEnd(bytes, endbox, end, path)

\* the loop of findBox from sibling offset i: the boxes found from i to end, in
\* the order the loop pushes them
RECURSIVE findBoxFrom(_, _, _, _)
findBoxFrom(bytes, i, end, path) ==
  IF ~(i < end) THEN <<>>
  ELSE
    LET size == readUint32(Raw(bytes), i)
        type == bin2str(subarray(bytes, i + 4, i + 8))
        endbox == IF size > 1 THEN i + size ELSE end
        found ==
          IF type = path[1]
          THEN IF Len(path) = 1
               THEN <<[data |-> bytes, start |-> i + 8, end |-> endbox]>>
               ELSE findBoxFrom(bytes, i + 8, endbox, Tail(path))
          ELSE <<>>
    IN found \o findBoxFrom(bytes, endbox, end, path)

findBox(input, path) ==
  IF Len(path) = 0 THEN <<>>
  ELSE findBoxFrom(input.data, input.start, input.end, path)

\* a view without its (aliased) buffer
Span(box) == [start |-> box.start, end |-> box.end]
Spans(boxes) == [k \in 1..Len(boxes) |-> Span(boxes[k])]

\* sliceUint8(array, start, end) of utils/typed-array: a copy of the bytes from
\* start up to, not including, end; a call without end passes the length
sliceUint8(array, start, end) == subarray(array, start, end)

\* segmentValidRange with the split one header late, at the payload of the
\* last moof
segmentedRangeAtPayload(bytes, last) ==
  [valid |-> Bytes(sliceUint8(bytes, 0, last.start)),
   remainder |-> Bytes(sliceUint8(bytes, last.start, Len(bytes)))]

\* the end of segmentValidRange: the split at the header of the last moof
segmentedRangeAt(bytes, last) ==
  [valid |-> Bytes(sliceUint8(bytes, 0, last.start - 8)),
   remainder |-> Bytes(sliceUint8(bytes, last.start - 8, Len(bytes)))]

\* segmentValidRange taking one moof for a complete segment
segmentedRangeOfAny(bytes, moofs) ==
  IF Len(moofs) < 1 THEN [valid |-> Null, remainder |-> Bytes(bytes)]
  ELSE segmentedRangeAt(bytes, moofs[Len(moofs)])

\* segmentValidRange from the moofs found on
segmentedRangeOf(bytes, moofs) ==
  IF Len(moofs) < 2 THEN [valid |-> Null, remainder |-> Bytes(bytes)]
  ELSE segmentedRangeAt(bytes, moofs[Len(moofs)])

segmentValidRange(bytes) == segmentedRangeOf(bytes, findBox(Raw(bytes), <<moof>>))

(* What a producer writes: a forest of boxes, each a header (size, type)    *)
(* followed by its child boxes or by pad payload octets.                    *)

U32(n) ==
  <<(n \div (Radix * Radix * Radix)) % Radix, (n \div (Radix * Radix)) % Radix,
    (n \div Radix) % Radix, n % Radix>>
U16(n) == <<(n \div Radix) % Radix, n % Radix>>
Zeros(n) == [k \in 1..n |-> 0]

RECURSIVE ForestLen(_)
BoxLen(box) == 8 + box.pad + ForestLen(box.kids)
ForestLen(f) == IF f = <<>> THEN 0 ELSE BoxLen(Head(f)) + ForestLen(Tail(f))

RECURSIVE ForestBytes(_)
BoxBytes(box) ==
  U32(BoxLen(box)) \o box.type \o ForestBytes(box.kids) \o Zeros(box.pad)
ForestBytes(f) == IF f = <<>> THEN <<>> ELSE BoxBytes(Head(f)) \o ForestBytes(Tail(f))

\* the header offsets of the boxes of a forest laid out from base
RECURSIVE Headers(_, _)
Headers(f, base) ==
  IF f = <<>> THEN {}
  ELSE {base} \cup Headers(Head(f).kids, base + 8)
              \cup Headers(Tail(f), base + BoxLen(Head(f)))

\* those of the boxes that end where their container ends
RECURSIVE LastHeaders(_, _)
LastHeaders(f, base) ==
  IF f = <<>> THEN {}
  ELSE IF Len(f) = 1
       THEN {base} \cup LastHeaders(Head(f).kids, base + 8)
       ELSE LastHeaders(Tail(f), base + BoxLen(Head(f)))

\* the payload ranges of the boxes whose chain of types is path, in document order
RECURSIVE Matching(_, _, _)
Matching(f, base, path) ==
  IF f = <<>> \/ path = <<>> THEN <<>>
  ELSE
    LET box == Head(f)
        here ==
          IF box.type # path[1] THEN <<>>
          ELSE IF Len(path) = 1
               THEN <<[start |-> base + 8, end |-> base + BoxLen(box)]>>
               ELSE Matching(box.kids, base + 8, Tail(path))
    IN here \o Matching(Tail(f), base + BoxLen(box), path)

MaxBoxes == 3
BoxTypes == {moof, traf}
Pads == {0, 2}

RECURSIVE Forests(_)
Trees(n) ==
  IF n = 1
  THEN {[type |-> t, kids |-> <<>>, pad |-> p] : t \in BoxTypes, p \in Pads}
  ELSE {[type |-> t, kids |-> f, pad |-> 0] : t \in BoxTypes, f \in Forests(n - 1)}
Forests(n) ==
  IF n = 0 THEN {<<>>}
  ELSE UNION {{<<t>> \o f : t \in Trees(k), f \in Forests(n - k)} : k \in 1..n}

\* size fields a producer may write in place of a box's length: "to the end of
\* the container" (0, 1), shorter than a header, and beyond any buffer (with
\* the word's top bit set)
PatchSizes == {0, 1, 4, WordRadix \div 2 + 9}
NoPatch == [at |-> -1, size |-> 0]

Paths ==
  {<<>>, <<moof>>, <<traf>>, <<mdat>>, <<moof, traf>>, <<moof, moof>>,
   <<traf, moof, traf>>}

BoxInit ==
  /\ \E n \in 1..MaxBoxes : \E f \in Forests(n) :
       \E p \in {NoPatch} \cup
                {[at |-> h, size |-> s] : h \in Headers(f, 0), s \in PatchSizes} :
         /\ written = [kind |-> "boxes", boxes |-> f, patch |-> p]
         /\ data = IF p.at < 0 THEN ForestBytes(f)
                   ELSE writeUint32(Raw(ForestBytes(f)), p.at, p.size)
  /\ initData = <<>>
  /\ op = "none"
  /\ arg = <<>>
  /\ ret = <<>>
  /\ calls = 0

\* findBox(data, path) on the whole buffer
FindBox ==
  /\ \E path \in Paths :
       /\ op' = "findBox"
       /\ arg' = [input |-> Span(Raw(data)), path |-> path]
       /\ ret' = Spans(findBox(Raw(data), path))
  /\ UNCHANGED <<data, written, initData, calls>>

\* findBox(box, path) on a box an earlier search returned
FindBoxIn ==
  /\ op = "findBox"
  /\ \E k \in 1..Len(ret), path \in {<<traf>>} :
       /\ op' = "findBox"
       /\ arg' = [input |-> ret[k], path |-> path]
       /\ ret' = Spans(findBox([data |-> data, start |-> ret[k].start,
                                end |-> ret[k].end], path))
  /\ UNCHANGED <<data, written, initData, calls>>

SegmentValidRange ==
  /\ op' = "segmentValidRange"
  /\ arg' = <<>>
  /\ ret' = segmentValidRange(data)
  /\ UNCHANGED <<data, written, initData, calls>>

BoxNext == FindBox \/ FindBoxIn \/ SegmentValidRange

SpecBox == BoxInit /\ [][BoxNext]_vars

\* the producer wrote every size field as the length of its box, or as 0 or 1
\* in a box that ends where its container ends
WellFormed ==
  /\ written.kind = "boxes"
  /\ \/ written.patch.at < 0
     \/ /\ written.patch.size \in {0, 1}
        /\ written.patch.at \in LastHeaders(written.boxes, 0)

\* C1: on a well-formed buffer findBox returns exactly the payload ranges of the
\* boxes whose chain of types from the top level is the path, in document
\* order; and on every buffer it returns nothing for the empty path
C1_FindBoxExact ==
  (op = "findBox" /\ arg.input = Span(Raw(data)))
    => /\ WellFormed => ret = Matching(written.boxes, 0, arg.path)
       /\ arg.path = <<>> => ret = <<>>

\* two sibling boxes of one type under one parent are both returned, in order
C1_Witness ==
  /\ op = "findBox"
  /\ arg.input = Span(Raw(data))
  /\ WellFormed
  /\ arg.path = <<moof, traf>>
  /\ Len(ret) = 2
  /\ ret[1].end < ret[2].start
  /\ Len(written.boxes) = 1

\* C2: every box findBox returns lies inside the buffer and inside the
\* container it was searched in, start first
C2_BoxViewInBounds ==
  op = "findBox"
    => \A k \in 1..Len(ret) :
         /\ ret[k].start <= ret[k].end
         /\ ret[k].end <= Len(data)
         /\ ret[k].end <= arg.input.end

\* the header offsets of the top-level moof boxes of a forest laid out from
\* base, in order
RECURSIVE TopMoofs(_, _)
TopMoofs(f, base) ==
  IF f = <<>> THEN <<>>
  ELSE (IF Head(f).type = moof THEN <<base>> ELSE <<>>)
       \o TopMoofs(Tail(f), base + BoxLen(Head(f)))

LastMoof == TopMoofs(written.boxes, 0)[Len(TopMoofs(written.boxes, 0))]

\* C15: on a buffer of two or more top-level moof boxes segmentValidRange
\* returns as valid the bytes before the header of the last moof and as
\* remainder the bytes from that header on: the two make up the buffer and the
\* remainder starts with the eight bytes of that header
C15_SplitAtLastMoof ==
  op = "segmentValidRange" =>
    /\ (WellFormed /\ Len(TopMoofs(written.boxes, 0)) >= 2) =>
         /\ ret.valid = Bytes(SubSeq(data, 1, LastMoof))
         /\ ret.remainder = Bytes(SubSeq(data, LastMoof + 1, Len(data)))
         /\ SubSeq(ret.remainder.value, 5, 8) = moof
    /\ ret.valid # Null =>
         /\ ret.valid.value \o ret.remainder.value = data
         /\ Len(ret.remainder.value) >= 8

\* two top-level moofs, the second with a box inside: the split is at the
\* header of the second
C15_Witness ==
  /\ op = "segmentValidRange"
  /\ WellFormed
  /\ Len(TopMoofs(written.boxes, 0)) = 2
  /\ Len(written.boxes) = 2
  /\ written.boxes[2].kids # <<>>
  /\ ret.valid # Null
  /\ Len(ret.valid.value) = BoxLen(written.boxes[1])
  /\ Len(ret.remainder.value) = 16

\* C16: on a buffer of no or one top-level moof box segmentValidRange returns
\* no valid bytes and the whole buffer as remainder
C16_NoValidBeforeSecondMoof ==
  op = "segmentValidRange" =>
    /\ (WellFormed /\ Len(TopMoofs(written.boxes, 0)) < 2) =>
         ret = [valid |-> Null, remainder |-> Bytes(data)]
    /\ ret.valid = Null => ret.remainder = Bytes(data)

\* one top-level moof that holds a moof: the inner one does not count
C16_Witness ==
  /\ op = "segmentValidRange"
  /\ WellFormed
  /\ Len(written.boxes) = 1
  /\ written.boxes[1].type = moof
  /\ written.boxes[1].kids # <<>>
  /\ written.boxes[1].kids[1].type = moof
  /\ ret.valid = Null

-----------------------------------------------------------------------------
(* The segment index parser *)

\* the word's top bit (0x80000000) and the bits below it (0x7fffffff)
TopBit == WordRadix \div 2

\* the loop over the references from payload offset index; null as soon as a
\* reference is hierarchical
RECURSIVE sidxReferences(_, _, _, _, _)
sidxReferences(box, index, left, startByte, timescale) ==
  IF left = 0 THEN [null |-> FALSE, references |-> <<>>]
  ELSE
    LET referenceInfo == readUint32(box, index)
        referenceSize == referenceInfo % TopBit
        referenceType == (referenceInfo \div TopBit) % 2
        subsegmentDuration == readUint32(box, index + 4)
        rest == sidxReferences(box, index + 12, left - 1,
                               startByte + referenceSize, timescale)
    IN IF referenceType = 1 THEN [null |-> TRUE, references |-> <<>>]
       ELSE IF rest.null THEN rest
       ELSE [null |-> FALSE,
             references |->
               <<[referenceSize |-> referenceSize,
                  subsegmentDuration |-> subsegmentDuration,
                  info |-> [duration |-> [num |-> subsegmentDuration,
                                          den |-> timescale],
                            start |-> startByte,
                            end |-> startByte + referenceSize - 1]]>>
               \o rest.references]

\* the return of parseSegmentIndex; a quotient a / b of two numbers is kept as
\* the pair of its operands
sidxInfo(moovEndOffset, version, timescale, referencesCount, loop) ==
  IF loop.null THEN Null
  ELSE [kind |-> "sidx",
        earliestPresentationTime |-> 0,
        timescale |-> timescale,
        version |-> version,
        referencesCount |-> referencesCount,
        references |-> loop.references,
        moovEndOffset |-> moovEndOffset]

\* parseSegmentIndex from the read of referencesCount at payload offset index
sidxCounted(moovEndOffset, box, version, timescale, index, referencesCount) ==
  sidxInfo(moovEndOffset, version, timescale, referencesCount,
           sidxReferences(box, index + 2, referencesCount, box.end + 0, timescale))

\* parseSegmentIndex from the read of timescale at payload offset index
sidxIndexed(moovEndOffset, box, version, index) ==
  sidxCounted(moovEndOffset, box, version, readUint32(box, index),
              (index + 4) + (IF version = 0 THEN 8 ELSE 16) + 2,
              readUint16(box, (index + 4) + (IF version = 0 THEN 8 ELSE 16) + 2))

\* parseSegmentIndex on the boxes the two searches found
sidxOfBoxes(moovBox, sidxBox) ==
  IF Len(sidxBox) = 0 THEN Null
  ELSE sidxIndexed(IF Len(moovBox) > 0 THEN moovBox[1].end ELSE -1, sidxBox[1],
                   sidxBox[1].data[1],
                   IF sidxBox[1].data[1] = 0 THEN 8 ELSE 16)

parseSegmentIndex(initSegment) ==
  sidxOfBoxes(findBox(Raw(initSegment), <<moov>>), findBox(Raw(initSegment), <<sidx>>))

(* What a producer writes: an optional moov box, then one sidx box laid out  *)
(* as ISO/IEC 14496-12 lays it out for its version, then an mdat box.        *)

RECURSIVE SidxRefBytes(_)
SidxRefBytes(refs) ==
  IF refs = <<>> THEN <<>>
  ELSE U32(Head(refs).type * TopBit + Head(refs).size)
       \o U32(Head(refs).duration) \o U32(0) \o SidxRefBytes(Tail(refs))

SidxPayload(sx) ==
  <<sx.version, 0, 0, 0>> \o U32(1) \o U32(sx.timescale)
  \o (IF sx.version = 0 THEN U32(0) \o U32(0)
      ELSE U32(0) \o U32(0) \o U32(0) \o U32(0))
  \o U16(0) \o U16(Len(sx.refs)) \o SidxRefBytes(sx.refs)

SidxSegment(sx) ==
  (IF sx.moov THEN U32(8 + 4) \o moov \o Zeros(4) ELSE <<>>)
  \o U32(8 + Len(SidxPayload(sx))) \o sidx \o SidxPayload(sx)
  \o U32(8) \o mdat

MaxRefs == 2
SidxRefs ==
  {[type |-> t, size |-> z, duration |-> d] :
     t \in {0, 1}, z \in {1000, 2000}, d \in {45000, 3}}
SidxTimescales == {90000, 1}

RECURSIVE SeqsUpTo(_, _)
SeqsUpTo(S, n) ==
  IF n = 0 THEN {<<>>}
  ELSE SeqsUpTo(S, n - 1)
       \cup {Append(q, x) : q \in {r \in SeqsUpTo(S, n - 1) : Len(r) = n - 1}, x \in S}

SidxInit ==
  /\ \E v \in {0, 1}, t \in SidxTimescales, m \in BOOLEAN,
        refs \in SeqsUpTo(SidxRefs, MaxRefs) :
       /\ written = [kind |-> "sidx", version |-> v, timescale |-> t, moov |-> m,
                     refs |-> refs]
       /\ data = SidxSegment(written)
  /\ initData = <<>>
  /\ op = "none"
  /\ arg = <<>>
  /\ ret = <<>>
  /\ calls = 0

ParseSegmentIndex ==
  /\ op' = "parseSegmentIndex"
  /\ arg' = <<>>
  /\ ret' = parseSegmentIndex(data)
  /\ UNCHANGED <<data, written, initData, calls>>

\* parseSegmentIndex on the bytes that follow the sidx box (no sidx in them)
ParseSegmentIndexTail ==
  /\ op' = "parseSegmentIndex"
  /\ arg' = [tail |-> TRUE]
  /\ ret' = parseSegmentIndex(<<0, 0, 0, 8>> \o mdat)
  /\ UNCHANGED <<data, written, initData, calls>>

SidxNext == ParseSegmentIndex \/ ParseSegmentIndexTail

SpecSidx == SidxInit /\ [][SidxNext]_vars

SidxEnd == (IF written.moov THEN 12 ELSE 0) + 8 + Len(SidxPayload(written))

Hierarchical == \E k \in 1..Len(written.refs) : written.refs[k].type = 1

\* C4: a sidx box with a hierarchical reference (type bit set), at whatever
\* position among flat ones, yields null for the whole box
C4_HierarchicalIsNull ==
  (op = "parseSegmentIndex" /\ arg = <<>> /\ Hierarchical) => ret = Null

\* C4 on sidx boxes of version 0 only
C4_HierarchicalIsNullV0 ==
  (op = "parseSegmentIndex" /\ arg = <<>> /\ Hierarchical /\ written.version = 0)
    => ret = Null

\* the references of the producer's sidx as C5 describes them: contiguous byte
\* ranges from the end of the sidx box, durations over the timescale
RECURSIVE FlatReferences(_, _, _)
FlatReferences(refs, startByte, timescale) ==
  IF refs = <<>> THEN <<>>
  ELSE <<[referenceSize |-> Head(refs).size,
          subsegmentDuration |-> Head(refs).duration,
          info |-> [duration |-> [num |-> Head(refs).duration, den |-> timescale],
                    start |-> startByte,
                    end |-> startByte + Head(refs).size - 1]]>>
       \o FlatReferences(Tail(refs), startByte + Head(refs).size, timescale)

\* C5: a sidx box with flat references only yields one reference per entry, in
\* order, the byte ranges contiguous from the end of the sidx box and each
\* duration the subsegment duration over the timescale
C5_FlatReferences ==
  (op = "parseSegmentIndex" /\ arg = <<>> /\ ~Hierarchical)
    => /\ ret # Null
       /\ ret.references = FlatReferences(written.refs, SidxEnd, written.timescale)

\* C5 on sidx boxes of version 0 only
C5_FlatReferencesV0 ==
  (op = "parseSegmentIndex" /\ arg = <<>> /\ ~Hierarchical /\ written.version = 0)
    => /\ ret # Null
       /\ ret.references = FlatReferences(written.refs, SidxEnd, written.timescale)

\* C27: parseSegmentIndex reads the timescale at payload offset 8 for either
\* version, and the reference count behind an earliest-presentation-time and
\* first-offset pair of 8 octets for version 0 and of 16 for version 1 (payload
\* offset 22 or 30): what it returns for a sidx of either version is the
\* timescale and the number of references written
C27_VersionOffsets ==
  (op = "parseSegmentIndex" /\ arg = <<>> /\ ret # Null)
    => /\ ret.timescale = written.timescale
       /\ ret.referencesCount = Len(written.refs)

\* C27 on sidx boxes of version 0 only
C27_VersionOffsetsV0 ==
  (op = "parseSegmentIndex" /\ arg = <<>> /\ ret # Null /\ written.version = 0)
    => /\ ret.timescale = written.timescale
       /\ ret.referencesCount = Len(written.refs)

\* a version-0 sidx of two references at timescale 90000
C27_V0Witness ==
  /\ op = "parseSegmentIndex"
  /\ arg = <<>>
  /\ written.version = 0
  /\ ret # Null
  /\ ret.timescale = 90000
  /\ ret.referencesCount = 2

-----------------------------------------------------------------------------
(* Emulation-prevention bytes *)

\* the first loop of discardEmulationPreventionBytes, from index i: the
\* positions of the bytes to drop
RECURSIVE emulationPreventionBytesPositions(_, _)
emulationPreventionBytesPositions(bytes, i) ==
  IF ~(i < Len(bytes) - 2) THEN <<>>
  ELSE IF bytes[i + 1] = 0 /\ bytes[i + 2] = 0 /\ bytes[i + 3] = 3
       THEN <<i + 2>> \o emulationPreventionBytesPositions(bytes, i + 2)
       ELSE emulationPreventionBytesPositions(bytes, i + 1)

\* the second loop: newData[i..newLength-1], copied from sourceIndex on
RECURSIVE copyWithout(_, _, _, _, _)
copyWithout(bytes, positions, sourceIndex, i, newLength) ==
  IF ~(i < newLength) THEN <<>>
  ELSE
    LET skip == positions # <<>> /\ sourceIndex = Head(positions)
        src == IF skip THEN sourceIndex + 1 ELSE sourceIndex
        left == IF skip THEN Tail(positions) ELSE positions
    IN <<Elem(bytes, src)>> \o copyWithout(bytes, left, src + 1, i + 1, newLength)

discardEmulationPreventionBytes(bytes) ==
  LET positions == emulationPreventionBytesPositions(bytes, 1)
  IN IF Len(positions) = 0 THEN bytes
     ELSE copyWithout(bytes, positions, 0, 0, Len(bytes) - Len(positions))

MaxEpbLen == 5
EpbBytes == {0, 1, 3}

EpbInit ==
  /\ data \in SeqsUpTo(EpbBytes, MaxEpbLen)
  /\ written = [kind |-> "rbsp"]
  /\ initData = <<>>
  /\ op = "none"
  /\ arg = <<>>
  /\ ret = <<>>
  /\ calls = 0

DiscardEmulationPreventionBytes ==
  /\ op = "none"
  /\ op' = "discardEmulationPreventionBytes"
  /\ arg' = <<>>
  /\ ret' = discardEmulationPreventionBytes(data)
  /\ UNCHANGED <<data, written, initData, calls>>

EpbNext == DiscardEmulationPreventionBytes

SpecEpb == EpbInit /\ [][EpbNext]_vars

\* the input without the 0x03 of each of its 0x00 0x00 0x03 triples
RECURSIVE WithoutTriples(_, _)
WithoutTriples(bytes, k) ==
  IF k > Len(bytes) THEN <<>>
  ELSE IF k >= 3 /\ bytes[k] = 3 /\ bytes[k - 1] = 0 /\ bytes[k - 2] = 0
       THEN WithoutTriples(bytes, k + 1)
       ELSE <<bytes[k]>> \o WithoutTriples(bytes, k + 1)

\* C7: the result is the input without the 0x03 of every 0x00 0x00 0x03
\* triple, wherever the triple starts, the other bytes in order
C7_TriplesRemoved ==
  op = "discardEmulationPreventionBytes" => ret = WithoutTriples(data, 1)

\* C7 for the triples that do not start at index 0
C7_TriplesRemovedAfterFirstByte ==
  (op = "discardEmulationPreventionBytes"
     /\ ~(Len(data) >= 3 /\ data[1] = 0 /\ data[2] = 0 /\ data[3] = 3))
    => ret = WithoutTriples(data, 1)

-----------------------------------------------------------------------------
(* SEI NAL units of an mdat *)

Throw(e) == [kind |-> "throw", error |-> e]
Ok(v) == [kind |-> "ok", value |-> v]

NoSample == [none |-> TRUE]

RECURSIVE mapToSampleFrom(_, _, _)
mapToSampleFrom(approximateOffset, samples, i) ==
  IF ~(i < Len(samples)) THEN NoSample
  ELSE
    LET sample == samples[i + 1]
    IN IF sample.size # 0 /\ approximateOffset < sample.size THEN sample
       ELSE mapToSampleFrom(approximateOffset - sample.size, samples, i + 1)

mapToSample(offset, samples) == mapToSampleFrom(offset, samples, 0)

\* the NAL type mask 0x1f
NalType(b) == b % 32

\* the loop of findSeiNals from stream offset i, with the sample matched last
RECURSIVE findSeiNalsFrom(_, _, _, _, _)
findSeiNalsFrom(avcStream, samples, trackId, i, lastMatchedSample) ==
  IF ~(i + 4 < Len(avcStream)) THEN Ok(<<>>)
  ELSE
    LET length == readUint32(Raw(avcStream), i)
        j == i + 4
    IN IF length <= 0
       THEN findSeiNalsFrom(avcStream, samples, trackId, j + length, lastMatchedSample)
       ELSE IF NalType(avcStream[j + 1]) # 6
       THEN findSeiNalsFrom(avcStream, samples, trackId, j + length, lastMatchedSample)
       ELSE
         LET bytes == subarray(avcStream, j + 1, j + 1 + length)
             matchingSample == mapToSample(j, samples)
             from == IF matchingSample # NoSample THEN matchingSample
                     ELSE lastMatchedSample
             seiNal == [nalUnitType |-> "sei_rbsp", size |-> length, data |-> bytes,
                        escapedRBSP |-> discardEmulationPreventionBytes(bytes),
                        trackId |-> trackId, pts |-> from.pts, dts |-> from.dts]
         IN IF from = NoSample
            \* this.log(...) in a module-level function: this is undefined
            THEN Throw("TypeError")
            ELSE LET rest == findSeiNalsFrom(avcStream, samples, trackId,
                                             j + length, from)
                 IN IF rest.kind = "throw" THEN rest
                    ELSE Ok(<<seiNal>> \o rest.value)

\* new DataView(...).getUint32(0) before the loop needs four bytes
findSeiNals(avcStream, samples, trackId) ==
  IF Len(avcStream) < 4 THEN Throw("RangeError")
  ELSE findSeiNalsFrom(avcStream, samples, trackId, 0, NoSample)

(* What a producer writes into the mdat: NAL units, each a four-byte length, *)
(* a header byte carrying the type, and payload; beside it the samples of    *)
(* the track run, by size.                                                   *)

RECURSIVE NalBytes(_)
NalBytes(nals) ==
  IF nals = <<>> THEN <<>>
  ELSE U32(1 + Len(Head(nals).payload)) \o <<Head(nals).type>> \o Head(nals).payload
       \o NalBytes(Tail(nals))

MaxNals == 3
Nals == {[type |-> t, payload |-> <<1>>] : t \in {6, 1, 32 + 6}}
SampleSizes == {0, 6, 12}

\* samples as parseSamples leaves them: dts running, pts from dts
RECURSIVE SamplesOf(_, _)
SamplesOf(sizes, dts) ==
  IF sizes = <<>> THEN <<>>
  ELSE <<[size |-> Head(sizes), duration |-> 10, compositionTimeOffset |-> 1,
          dts |-> dts, pts |-> dts + 1]>>
       \o SamplesOf(Tail(sizes), dts + 10)

NalInit ==
  /\ \E nals \in SeqsUpTo(Nals, MaxNals), sizes \in SeqsUpTo(SampleSizes, 2) :
       /\ written = [kind |-> "nals", nals |-> nals, samples |-> SamplesOf(sizes, 100)]
       /\ data = NalBytes(nals)
  /\ initData = <<>>
  /\ op = "none"
  /\ arg = <<>>
  /\ ret = <<>>
  /\ calls = 0

FindSeiNals ==
  /\ op = "none"
  /\ op' = "findSeiNals"
  /\ arg' = [trackId |-> 1]
  /\ ret' = findSeiNals(data, written.samples, 1)
  /\ UNCHANGED <<data, written, initData, calls>>

MapToSample ==
  /\ op = "none"
  /\ \E offset \in {4, 10, 16} :
       /\ op' = "mapToSample"
       /\ arg' = [offset |-> offset]
       /\ ret' = mapToSample(offset, written.samples)
  /\ UNCHANGED <<data, written, initData, calls>>

NalNext == FindSeiNals \/ MapToSample

SpecNal == NalInit /\ [][NalNext]_vars

\* the sample whose window of cumulative sizes holds the offset
RECURSIVE Containing(_, _, _)
Containing(samples, offset, base) ==
  IF samples = <<>> THEN NoSample
  ELSE IF base <= offset /\ offset < base + Head(samples).size THEN Head(samples)
       ELSE Containing(Tail(samples), offset, base + Head(samples).size)

\* the SEI NAL units as C9 stamps them: by the containing sample, else by the
\* sample matched last, else dropped
RECURSIVE StampedNals(_, _, _, _)
StampedNals(nals, samples, offset, last) ==
  IF nals = <<>> THEN <<>>
  ELSE
    LET nal == Head(nals)
        next == offset + 4 + 1 + Len(nal.payload)
        own == Containing(samples, offset + 4, 0)
        from == IF own # NoSample THEN own ELSE last
    IN IF NalType(nal.type) # 6 THEN StampedNals(Tail(nals), samples, next, last)
       ELSE IF from = NoSample THEN StampedNals(Tail(nals), samples, next, last)
       ELSE <<[pts |-> from.pts, dts |-> from.dts]>>
            \o StampedNals(Tail(nals), samples, next, from)

Stamps(nals) == [k \in 1..Len(nals) |-> [pts |-> nals[k].pts, dts |-> nals[k].dts]]

\* an SEI NAL lies in no sample's window
RECURSIVE HasUnmatchedSei(_, _, _)
HasUnmatchedSei(nals, samples, offset) ==
  /\ nals # <<>>
  /\ \/ /\ NalType(Head(nals).type) = 6
        /\ Containing(samples, offset + 4, 0) = NoSample
     \/ HasUnmatchedSei(Tail(nals), samples, offset + 5 + Len(Head(nals).payload))

\* C9: an SEI NAL in no sample's window takes the pts and dts of the sample
\* matched last; when none has matched it alone is dropped, and findSeiNals
\* returns normally
C9_UnmatchedNalFallsBackOrIsDropped ==
  (op = "findSeiNals" /\ written.nals # <<>>)
    => /\ ret.kind = "ok"
       /\ Stamps(ret.value) = StampedNals(written.nals, written.samples, 0, NoSample)

\* C9 once a NAL has matched: the fallback to the sample matched last
C9_FallbackAfterMatch ==
  (op = "findSeiNals" /\ ret.kind = "ok")
    => Stamps(ret.value) = StampedNals(written.nals, written.samples, 0, NoSample)

C9_FallbackWitness ==
  /\ op = "findSeiNals"
  /\ ret.kind = "ok"
  /\ HasUnmatchedSei(written.nals, written.samples, 0)
  /\ Len(ret.value) >= 2

-----------------------------------------------------------------------------
(* Track fragment boxes: tfhd, tfdt, trun *)

\* an absent optional number (undefined), outside the range of every field
Undefined == -(WordRadix * 4)
NoFlags == [undefined |-> TRUE]

\* x & m # 0 for a single-bit mask m
HasBit(x, m) == (x \div m) % 2 = 1

\* a | b on non-negative numbers
RECURSIVE BitOr(_, _)
BitOr(a, b) ==
  IF a = 0 THEN b
  ELSE IF b = 0 THEN a
  ELSE 2 * BitOr(a \div 2, b \div 2) + (IF a % 2 = 1 \/ b % 2 = 1 THEN 1 ELSE 0)

\* DataView.getUint32(offset) over bytes: a RangeError outside the view
InView(bytes, offset) == offset >= 0 /\ offset + 4 <= Len(bytes)
getUint32(bytes, offset) == readUint32(Raw(bytes), offset)
getInt32(bytes, offset) == ToInt32(readUint32(Raw(bytes), offset))

toUnsigned(value) == value % WordRadix

parseTfhd(box) ==
  LET bytes == subarray(box.data, box.start, box.end)
      flags == subarray(bytes, 1, 4)
      baseDataOffsetPresent == HasBit(Elem(flags, 2), 1)
      sampleDescriptionIndexPresent == HasBit(Elem(flags, 2), 2)
      defaultSampleDurationPresent == HasBit(Elem(flags, 2), 8)
      defaultSampleSizePresent == HasBit(Elem(flags, 2), 16)
      defaultSampleFlagsPresent == HasBit(Elem(flags, 2), 32)
      \* flags[0] & 0x010000 and flags[0] & 0x020000: no octet has these bits
      durationIsEmpty == FALSE
      defaultBaseIsMoof == FALSE
      i1 == 8 + (IF baseDataOffsetPresent THEN 8 ELSE 0)
      i2 == i1 + (IF sampleDescriptionIndexPresent THEN 4 ELSE 0)
      i3 == i2 + (IF defaultSampleDurationPresent THEN 4 ELSE 0)
      i4 == i3 + (IF defaultSampleSizePresent THEN 4 ELSE 0)
      reads == {4} \cup (IF baseDataOffsetPresent THEN {12} ELSE {})
                   \cup (IF sampleDescriptionIndexPresent THEN {i1} ELSE {})
                   \cup (IF defaultSampleDurationPresent THEN {i2} ELSE {})
                   \cup (IF defaultSampleSizePresent THEN {i3} ELSE {})
                   \cup (IF defaultSampleFlagsPresent THEN {i4} ELSE {})
  IN IF \E o \in reads : ~InView(bytes, o) THEN Throw("RangeError")
     ELSE Ok([version |-> bytes[1],
              flags |-> flags,
              trackId |-> getUint32(bytes, 4),
              baseDataOffset |->
                IF baseDataOffsetPresent THEN getUint32(bytes, 12) ELSE Undefined,
              sampleDescriptionIndex |->
                IF sampleDescriptionIndexPresent THEN getUint32(bytes, i1)
                ELSE Undefined,
              defaultSampleDuration |->
                IF defaultSampleDurationPresent THEN getUint32(bytes, i2)
                ELSE Undefined,
              defaultSampleSize |->
                IF defaultSampleSizePresent THEN getUint32(bytes, i3) ELSE Undefined,
              defaultSampleFlags |->
                IF defaultSampleFlagsPresent THEN getUint32(bytes, i4) ELSE Undefined,
              durationIsEmpty |-> durationIsEmpty,
              baseDataOffsetIsMoof |-> ~baseDataOffsetPresent /\ defaultBaseIsMoof])

\* parseTfdt without toUnsigned on the low word of a version-1 time
parseTfdtSigned(box) ==
  LET bytes == subarray(box.data, box.start, box.end)
      version == IF Len(bytes) > 0 THEN bytes[1] ELSE Undefined
      high == toUnsigned(Int32At(bytes, 4))
  IN [version |-> version,
      flags |-> subarray(bytes, 1, 4),
      baseMediaDecodeTime |->
        IF version = 1 THEN high * WordRadix + Int32At(bytes, 8)
        ELSE high]

parseTfdt(box) ==
  LET bytes == subarray(box.data, box.start, box.end)
      version == IF Len(bytes) > 0 THEN bytes[1] ELSE Undefined
      high == toUnsigned(Int32At(bytes, 4))
  IN [version |-> version,
      flags |-> subarray(bytes, 1, 4),
      baseMediaDecodeTime |->
        IF version = 1 THEN high * WordRadix + toUnsigned(Int32At(bytes, 8))
        ELSE high]

parseSampleFlags(flags) ==
  [isLeading |-> (Elem(flags, 0) \div 4) % 4,
   dependsOn |-> Elem(flags, 0) % 4,
   isDependedOn |-> (Elem(flags, 1) \div 64) % 4,
   hasRedundancy |-> (Elem(flags, 1) \div 16) % 4,
   paddingValue |-> (Elem(flags, 1) \div 2) % 8,
   isNonSyncSample |-> Elem(flags, 1) % 2,
   degradationPriority |-> Elem(flags, 2) * Radix + Elem(flags, 3)]

\* the samples of parseTrun from byte offset on; first tells the sample that
\* takes the first-sample-flags in place of its own
RECURSIVE trunSamples(_, _, _, _, _, _, _, _)
trunSamples(bytes, offset, left, first, durationPresent, sizePresent, flagsPresent, ctoPresent) ==
  IF left = 0 THEN Ok(<<>>)
  ELSE
    LET o0 == offset + (IF first THEN 4 ELSE 0)
        o1 == o0 + (IF durationPresent THEN 4 ELSE 0)
        o2 == o1 + (IF sizePresent THEN 4 ELSE 0)
        o3 == o2 + (IF ~first /\ flagsPresent THEN 4 ELSE 0)
        o4 == o3 + (IF ctoPresent THEN 4 ELSE 0)
        reads == (IF durationPresent THEN {o0} ELSE {})
                 \cup (IF sizePresent THEN {o1} ELSE {})
                 \cup (IF ctoPresent THEN {o3} ELSE {})
        sample ==
          [flags |-> IF first THEN parseSampleFlags(subarray(bytes, offset, offset + 4))
                     ELSE IF flagsPresent
                          THEN parseSampleFlags(subarray(bytes, o2, o2 + 4))
                          ELSE NoFlags,
           duration |-> IF durationPresent THEN getUint32(bytes, o0) ELSE Undefined,
           size |-> IF sizePresent THEN getUint32(bytes, o1) ELSE Undefined,
           compositionTimeOffset |->
             IF ctoPresent THEN getUint32(bytes, o3) ELSE Undefined]
    IN IF \E o \in reads : ~InView(bytes, o) THEN Throw("RangeError")
       ELSE LET rest == trunSamples(bytes, o4, left - 1, FALSE, durationPresent,
                                    sizePresent, flagsPresent, ctoPresent)
            IN IF rest.kind = "throw" THEN rest ELSE Ok(<<sample>> \o rest.value)

parseTrun(box) ==
  LET bytes == subarray(box.data, box.start, box.end)
      flags == subarray(bytes, 1, 4)
      dataOffsetPresent == HasBit(Elem(flags, 2), 1)
      firstSampleFlagsPresent == HasBit(Elem(flags, 2), 4)
      sampleDurationPresent == HasBit(Elem(flags, 1), 1)
      sampleSizePresent == HasBit(Elem(flags, 1), 2)
      sampleFlagsPresent == HasBit(Elem(flags, 1), 4)
      sampleCompositionTimeOffsetPresent == HasBit(Elem(flags, 1), 8)
  IN IF ~InView(bytes, 4) \/ (dataOffsetPresent /\ ~InView(bytes, 8))
     THEN Throw("RangeError")
     ELSE
       LET sampleCount == getUint32(bytes, 4)
           offset == 8 + (IF dataOffsetPresent THEN 4 ELSE 0)
           samples == trunSamples(bytes, offset, sampleCount,
                                  firstSampleFlagsPresent /\ sampleCount # 0,
                                  sampleDurationPresent, sampleSizePresent,
                                  sampleFlagsPresent,
                                  sampleCompositionTimeOffsetPresent)
       IN IF samples.kind = "throw" THEN samples
          ELSE Ok([version |-> bytes[1],
                   flags |-> flags,
                   samples |-> samples.value,
                   dataOffset |->
                     IF dataOffsetPresent THEN getInt32(bytes, 8) ELSE Undefined])

\* the inner forEach of parseSamples over one run's samples, from currentDts
RECURSIVE stampSamples(_, _, _, _, _)
stampSamples(samples, currentDts, defaultSampleDuration, defaultSampleSize, trackId) ==
  IF samples = <<>> THEN <<>>
  ELSE
    LET sample == Head(samples)
        duration == IF sample.duration = Undefined THEN defaultSampleDuration
                    ELSE sample.duration
        size == IF sample.size = Undefined THEN defaultSampleSize ELSE sample.size
        cto == IF sample.compositionTimeOffset = Undefined THEN 0
               ELSE sample.compositionTimeOffset
    IN <<[flags |-> sample.flags, duration |-> duration, size |-> size,
          compositionTimeOffset |-> cto, trackId |-> trackId,
          dts |-> currentDts, pts |-> currentDts + cto]>>
       \o stampSamples(Tail(samples), currentDts + duration, defaultSampleDuration,
                       defaultSampleSize, trackId)

RECURSIVE SumDurations(_)
SumDurations(samples) ==
  IF samples = <<>> THEN 0 ELSE Head(samples).duration + SumDurations(Tail(samples))

\* samples \o rest, or the exception rest ended with
concatSamples(samples, rest) ==
  IF rest.kind = "throw" THEN rest ELSE Ok(samples \o rest.value)

\* the outer forEach of parseSamples over the runs, in stages that take the
\* parsed run and its stamped samples
RECURSIVE parseSamplesFrom(_, _, _, _, _)
\* samplesStamped with the decode time of the next run starting over
samplesStampedAnew(truns, currentDts, defaultSampleDuration, defaultSampleSize, trackId, samples) ==
  concatSamples(samples,
                parseSamplesFrom(Tail(truns), currentDts,
                                 defaultSampleDuration, defaultSampleSize, trackId))

samplesStamped(truns, currentDts, defaultSampleDuration, defaultSampleSize, trackId, samples) ==
  concatSamples(samples,
                parseSamplesFrom(Tail(truns), currentDts + SumDurations(samples),
                                 defaultSampleDuration, defaultSampleSize, trackId))

samplesOfRun(truns, currentDts, defaultSampleDuration, defaultSampleSize, trackId, trackRun) ==
  IF trackRun.kind = "throw" THEN trackRun
  ELSE samplesStamped(truns, currentDts, defaultSampleDuration, defaultSampleSize,
                      trackId,
                      stampSamples(trackRun.value.samples, currentDts,
                                   defaultSampleDuration, defaultSampleSize, trackId))

parseSamplesFrom(truns, currentDts, defaultSampleDuration, defaultSampleSize, trackId) ==
  IF truns = <<>> THEN Ok(<<>>)
  ELSE samplesOfRun(truns, currentDts, defaultSampleDuration, defaultSampleSize,
                    trackId, parseTrun(Head(truns)))

\* parseSamples without the defaults of the tfhd
parseSamplesNoDefaults(truns, baseMediaDecodeTime, tfhdInfo) ==
  parseSamplesFrom(truns, baseMediaDecodeTime, 0, 0, tfhdInfo.trackId)

parseSamples(truns, baseMediaDecodeTime, tfhdInfo) ==
  parseSamplesFrom(truns, baseMediaDecodeTime,
                   IF tfhdInfo.defaultSampleDuration = Undefined THEN 0
                   ELSE tfhdInfo.defaultSampleDuration,
                   IF tfhdInfo.defaultSampleSize = Undefined THEN 0
                   ELSE tfhdInfo.defaultSampleSize,
                   tfhdInfo.trackId)

\* tfdt.length > 0 ? parseTfdt(tfdt[0]).baseMediaDecodeTime : 0
decodeTimeOf(tfdtBoxes) ==
  IF Len(tfdtBoxes) > 0 THEN parseTfdt(tfdtBoxes[1]).baseMediaDecodeTime ELSE 0

seiNalsOfSamples(mdatBytes, samples, trackId) ==
  IF samples.kind = "throw" THEN samples
  ELSE findSeiNals(mdatBytes, samples.value, trackId)

\* only the chosen video track is parsed
seiNalsOfTruns(mdatBytes, videoTrackId, headerInfo, baseMediaDecodeTime, truns) ==
  IF videoTrackId = headerInfo.trackId /\ Len(truns) > 0
  THEN seiNalsOfSamples(mdatBytes, parseSamples(truns, baseMediaDecodeTime, headerInfo),
                        headerInfo.trackId)
  ELSE Ok(<<>>)

seiNalsOfHeader(mdatBytes, trafBytes, videoTrackId, headerInfo) ==
  IF headerInfo.kind = "throw" THEN headerInfo
  ELSE seiNalsOfTruns(mdatBytes, videoTrackId, headerInfo.value,
                      decodeTimeOf(findBox(Raw(trafBytes), <<tfdt>>)),
                      findBox(Raw(trafBytes), <<trun>>))

seiNalsOfTfhd(mdatBytes, trafBytes, videoTrackId, tfhdBoxes) ==
  \* parseTfhd(tfhd[0]) reads tfhd.data: a TypeError when there is no tfhd
  IF Len(tfhdBoxes) = 0 THEN Throw("TypeError")
  ELSE seiNalsOfHeader(mdatBytes, trafBytes, videoTrackId, parseTfhd(tfhdBoxes[1]))

seiNalsOfTraf(mdatBytes, trafBytes, videoTrackId) ==
  seiNalsOfTfhd(mdatBytes, trafBytes, videoTrackId, findBox(Raw(trafBytes), <<tfhd>>))

\* one mdat/traf pair of parseCaptionNals: the SEI NALs it adds
captionNalsOfPair(bytes, mdatBox, trafBox, videoTrackId) ==
  seiNalsOfTraf(subarray(bytes, mdatBox.start, mdatBox.end),
                subarray(bytes, trafBox.start, trafBox.end), videoTrackId)

\* captionNals.concat(seiNals), or the exception either ended with
concatNals(seiNals, rest) ==
  IF rest.kind = "throw" THEN rest ELSE Ok(seiNals.value \o rest.value)

\* the second forEach of parseCaptionNals, from pair k on
RECURSIVE captionNalsFrom(_, _, _, _, _)
captionNalsAfter(bytes, mdats, trafs, k, videoTrackId, seiNals) ==
  IF seiNals.kind = "throw" THEN seiNals
  ELSE concatNals(seiNals, captionNalsFrom(bytes, mdats, trafs, k + 1, videoTrackId))

captionNalsFrom(bytes, mdats, trafs, k, videoTrackId) ==
  IF k > Len(mdats) THEN Ok(<<>>)
  \* trafs[index] is undefined past the last traf: traf.data is a TypeError
  ELSE IF k > Len(trafs) THEN Throw("TypeError")
  ELSE captionNalsAfter(bytes, mdats, trafs, k, videoTrackId,
                        captionNalsOfPair(bytes, mdats[k], trafs[k], videoTrackId))

parseCaptionNals(bytes, videoTrackId) ==
  captionNalsFrom(bytes, findBox(Raw(bytes), <<mdat>>),
                  findBox(Raw(bytes), <<moof, traf>>), 1, videoTrackId)

-----------------------------------------------------------------------------
(* Fragment timing: getStartDTS, getDuration, offsetStartDTS *)

(* A number that the code gets by dividing, a / b, is kept as the pair      *)
(* [num |-> a, den |-> b] (b > 0); a whole number n is [num |-> n, den |-> 1]. *)
Frac(a, b) == [num |-> a, den |-> b]
Zero == Frac(0, 1)
Infinity == Frac(1, 0)
\* x < y, compared on the whole parts first and then on the remainders
FracLess(x, y) ==
  IF x.den = y.den THEN x.num < y.num
  ELSE IF x.num \div x.den # y.num \div y.den THEN x.num \div x.den < y.num \div y.den
  ELSE (x.num % x.den) * y.den < (y.num % y.den) * x.den
FracAdd(x, y) ==
  IF y.num = 0 THEN x
  ELSE IF x.num = 0 THEN y
  ELSE IF x.den = y.den THEN Frac(x.num + y.num, x.den)
  ELSE Frac(x.num * y.den + y.num * x.den, x.den * y.den)

NoTrack == [none |-> TRUE]
NoDefault == [none |-> TRUE]
\* initData[id]
Track(table, id) == IF id \in DOMAIN table THEN table[id] ELSE NoTrack
\* track.timescale || 90e3
Timescale(track) == IF track.timescale = 0 THEN 90000 ELSE track.timescale

\* box.data[box.start]
FirstByte(box) ==
  IF box.start >= 0 /\ box.start < Len(box.data) THEN box.data[box.start + 1]
  ELSE Undefined

\* baseTime of getStartDTS: the decode time of the tfdt, 64-bit for version 1
baseTime(tfdtBox, version) ==
  IF version = 1 THEN readUint32(tfdtBox, 4) * WordRadix + readUint32(tfdtBox, 8)
  ELSE readUint32(tfdtBox, 4)

\* the callback of a reduce of getStartDTS on time: the earlier of time and
\* result; an inner reduce that found no track leaves null
earliest(time, result) ==
  IF time # Null /\ (result = Null \/ FracLess(time, result)) THEN time ELSE result

\* the callback of the inner reduce for a tfhd of the given track
startOfTfhd(track, tfdtBox, version, result) ==
  IF track = NoTrack THEN result
  ELSE earliest(Frac(baseTime(tfdtBox, version), Timescale(track)), result)

\* the inner reduce of getStartDTS over the tfhd boxes of one traf
RECURSIVE startOfTraf(_, _, _, _, _)
startOfTraf(table, tfhds, tfdtBox, version, result) ==
  IF tfhds = <<>> THEN result
  ELSE startOfTraf(table, Tail(tfhds), tfdtBox, version,
                   startOfTfhd(Track(table, readUint32(Head(tfhds), 4)), tfdtBox,
                               version, result))

\* the outer reduce over the trafs; tfdtBoxes is findBox(traf, ['tfdt']) of the
\* first of them
RECURSIVE startOfTrafs(_, _, _)
RECURSIVE startOfTrafsWith(_, _, _, _)
startOfTrafsWith(table, trafs, result, tfdtBoxes) ==
  \* tfdt.data of an undefined tfdt
  IF Len(tfdtBoxes) = 0 THEN Throw("TypeError")
  ELSE startOfTrafs(table, Tail(trafs),
                    earliest(startOfTraf(table, findBox(Head(trafs), <<tfhd>>),
                                         tfdtBoxes[1], FirstByte(tfdtBoxes[1]), Null),
                             result))

startOfTrafs(table, trafs, result) ==
  IF trafs = <<>> THEN Ok(result)
  ELSE startOfTrafsWith(table, trafs, result, findBox(Head(trafs), <<tfdt>>))

\* result || 0
orZero(result) ==
  IF result.kind = "throw" THEN result
  ELSE IF result.value = Null \/ result.value.num = 0 THEN Ok(Zero)
  ELSE result

getStartDTS(table, fmp4) ==
  orZero(startOfTrafs(table, findBox(Raw(fmp4), <<moof, traf>>), Null))

\* the loop of computeRawDurationFromSamples without the step over the
\* composition time offset
RECURSIVE rawDurationFromNoCto(_, _, _, _)
rawDurationFromNoCto(trunBox, flags, offset, left) ==
  IF left = 0 THEN 0
  ELSE
    LET o1 == offset + (IF HasBit(flags, Radix) THEN 4 ELSE 0)
        o2 == o1 + (IF HasBit(flags, 2 * Radix) THEN 4 ELSE 0)
        o3 == o2 + (IF HasBit(flags, 4 * Radix) THEN 4 ELSE 0)
    IN (IF HasBit(flags, Radix) THEN readUint32(trunBox, offset) ELSE 0)
       + rawDurationFromNoCto(trunBox, flags, o3, left - 1)

\* the loop of computeRawDurationFromSamples from byte offset on
RECURSIVE rawDurationFrom(_, _, _, _)
rawDurationFrom(trunBox, flags, offset, left) ==
  IF left = 0 THEN 0
  ELSE
    LET o1 == offset + (IF HasBit(flags, Radix) THEN 4 ELSE 0)
        o2 == o1 + (IF HasBit(flags, 2 * Radix) THEN 4 ELSE 0)
        o3 == o2 + (IF HasBit(flags, 4 * Radix) THEN 4 ELSE 0)
        o4 == o3 + (IF HasBit(flags, 8 * Radix) THEN 4 ELSE 0)
    IN (IF HasBit(flags, Radix) THEN readUint32(trunBox, offset) ELSE 0)
       + rawDurationFrom(trunBox, flags, o4, left - 1)

computeRawDurationFromSamples(trunBox) ==
  LET flags == readUint32(trunBox, 0)
      offset == 8 + (IF HasBit(flags, 1) THEN 4 ELSE 0)
                  + (IF HasBit(flags, 4) THEN 4 ELSE 0)
  IN rawDurationFrom(trunBox, flags, offset, readUint32(trunBox, 4))

\* the loop of getDuration over the truns of one traf: the seconds they add
RECURSIVE durationOfTruns(_, _, _)
durationOfTruns(truns, sampleDuration, timescale) ==
  IF truns = <<>> THEN Zero
  ELSE
    LET rawDuration ==
          IF sampleDuration # Undefined /\ sampleDuration # 0
          THEN sampleDuration * readUint32(Head(truns), 4)
          ELSE computeRawDurationFromSamples(Head(truns))
    IN FracAdd(Frac(rawDuration, timescale),
               durationOfTruns(Tail(truns), sampleDuration, timescale))

\* readUint32(tfhd, 0) | trackDefault?.flags
tfhdFlagsOf(box, trackDefault) ==
  BitOr(readUint32(box, 0), IF trackDefault = NoDefault THEN 0 ELSE trackDefault.flags)

\* sampleDuration of getDuration: the default_sample_duration of the tfhd when
\* its flag is set, else that of the track default
sampleDurationOf(box, tfhdFlags, trackDefault) ==
  IF HasBit(tfhdFlags, 8)
  THEN IF HasBit(tfhdFlags, 2) THEN readUint32(box, 12) ELSE readUint32(box, 8)
  ELSE IF trackDefault = NoDefault THEN Undefined ELSE trackDefault.duration

\* the loop of getDuration over the trafs: durationOfTrafs from the first of
\* trafs on, in stages that take tfhd, track and the seconds of the truns
RECURSIVE durationOfTrafs(_, _, _, _)
durationOfTruned(table, trafs, videoDuration, audioDuration, track, added) ==
  durationOfTrafs(table, Tail(trafs),
                  IF track.type = "video" THEN FracAdd(videoDuration, added)
                  ELSE videoDuration,
                  IF track.type = "audio" THEN FracAdd(audioDuration, added)
                  ELSE audioDuration)

durationOfTracked(table, trafs, videoDuration, audioDuration, box, track) ==
  IF track = NoTrack
  THEN durationOfTrafs(table, Tail(trafs), videoDuration, audioDuration)
  ELSE durationOfTruned(table, trafs, videoDuration, audioDuration, track,
         durationOfTruns(findBox(Head(trafs), <<trun>>),
                         sampleDurationOf(box, tfhdFlagsOf(box, track.default),
                                          track.default),
                         Timescale(track)))

durationOfHeaded(table, trafs, videoDuration, audioDuration, tfhdBoxes) ==
  \* readUint32(undefined, 4): 'data' in undefined is a TypeError
  IF Len(tfhdBoxes) = 0 THEN Throw("TypeError")
  ELSE durationOfTracked(table, trafs, videoDuration, audioDuration, tfhdBoxes[1],
                         Track(table, readUint32(tfhdBoxes[1], 4)))

durationOfTrafs(table, trafs, videoDuration, audioDuration) ==
  IF trafs = <<>> THEN Ok([video |-> videoDuration, audio |-> audioDuration])
  ELSE durationOfHeaded(table, trafs, videoDuration, audioDuration,
                        findBox(Head(trafs), <<tfhd>>))

\* the callback of sidx.references.reduce: dur + ref.info.duration || 0
addReference(dur, d) ==
  IF d.den = 0 THEN (IF d.num = 0 THEN Zero ELSE Infinity)
  ELSE IF dur = Infinity THEN Infinity ELSE FracAdd(dur, d)

RECURSIVE sumReferences(_, _)
sumReferences(references, dur) ==
  IF references = <<>> THEN dur
  ELSE sumReferences(Tail(references), addReference(dur, Head(references).info.duration))

\* the return of getDuration when the fallback to the sidx is not taken
durationOfSums(sums) == IF sums.video.num # 0 THEN Ok(sums.video) ELSE Ok(sums.audio)

\* the fallback: the sum over the references of the sidx, if there is one
durationOrIndex(sums, index) ==
  IF index # Null THEN Ok(sumReferences(index.references, Zero))
  ELSE durationOfSums(sums)

\* the end of getDuration, after the loop over the trafs
durationAfterTrafs(bytes, sums) ==
  IF sums.kind = "throw" THEN sums
  ELSE IF sums.value.video.num = 0 /\ sums.value.audio.num = 0
       THEN durationOrIndex(sums.value, parseSegmentIndex(bytes))
       ELSE durationOfSums(sums.value)

getDuration(bytes, table) ==
  durationAfterTrafs(bytes,
                     durationOfTrafs(table, findBox(Raw(bytes), <<moof, traf>>),
                                     Zero, Zero))

\* the innermost forEach of offsetStartDTS without the clamp at zero
RECURSIVE offsetTfdtsNoClamp(_, _, _, _)
offsetTfdtsNoClamp(bytes, tfdts, timeOffset, timescale) ==
  IF tfdts = <<>> THEN bytes
  ELSE
    LET box == [data |-> bytes, start |-> Head(tfdts).start, end |-> Head(tfdts).end]
        version == FirstByte(box)
        high == readUint32(box, 4)
        baseMediaDecodeTime ==
          high * WordRadix + readUint32(box, 8) - timeOffset * timescale
        upper == baseMediaDecodeTime \div (UINT32_MAX + 1)
        lower == baseMediaDecodeTime % (UINT32_MAX + 1)
        after ==
          IF version = 0 THEN writeUint32(box, 4, high - timeOffset * timescale)
          ELSE writeUint32([box EXCEPT !.data = writeUint32(box, 4, upper)], 8, lower)
    IN offsetTfdtsNoClamp(after, Tail(tfdts), timeOffset, timescale)

\* the innermost forEach of offsetStartDTS with the version-0 time clamped at
\* zero like the version-1 time
RECURSIVE offsetTfdtsClampV0(_, _, _, _)
offsetTfdtsClampV0(bytes, tfdts, timeOffset, timescale) ==
  IF tfdts = <<>> THEN bytes
  ELSE
    LET box == [data |-> bytes, start |-> Head(tfdts).start, end |-> Head(tfdts).end]
        version == FirstByte(box)
        high == readUint32(box, 4)
        narrow == high - timeOffset * timescale
        wide == high * WordRadix + readUint32(box, 8) - timeOffset * timescale
        baseMediaDecodeTime == IF wide > 0 THEN wide ELSE 0
        upper == baseMediaDecodeTime \div (UINT32_MAX + 1)
        lower == baseMediaDecodeTime % (UINT32_MAX + 1)
        after ==
          IF version = 0 THEN writeUint32(box, 4, IF narrow > 0 THEN narrow ELSE 0)
          ELSE writeUint32([box EXCEPT !.data = writeUint32(box, 4, upper)], 8, lower)
    IN offsetTfdtsClampV0(after, Tail(tfdts), timeOffset, timescale)

\* the innermost forEach of offsetStartDTS: the buffer after each tfdt of the
\* traf is rewritten
RECURSIVE offsetTfdts(_, _, _, _)
offsetTfdts(bytes, tfdts, timeOffset, timescale) ==
  IF tfdts = <<>> THEN bytes
  ELSE
    LET box == [data |-> bytes, start |-> Head(tfdts).start, end |-> Head(tfdts).end]
        version == FirstByte(box)
        high == readUint32(box, 4)
        wide == high * WordRadix + readUint32(box, 8) - timeOffset * timescale
        baseMediaDecodeTime == IF wide > 0 THEN wide ELSE 0
        upper == baseMediaDecodeTime \div (UINT32_MAX + 1)
        lower == baseMediaDecodeTime % (UINT32_MAX + 1)
        after ==
          IF version = 0 THEN writeUint32(box, 4, high - timeOffset * timescale)
          ELSE writeUint32([box EXCEPT !.data = writeUint32(box, 4, upper)], 8, lower)
    IN offsetTfdts(after, Tail(tfdts), timeOffset, timescale)

\* the middle forEach without the return on a track the table does not have
RECURSIVE offsetTfhdsAnyTrack(_, _, _, _, _)
offsetTfhdsAnyTrack(bytes, table, trafBox, tfhds, timeOffset) ==
  IF tfhds = <<>> THEN bytes
  ELSE
    LET box == [data |-> bytes, start |-> Head(tfhds).start, end |-> Head(tfhds).end]
        track == Track(table, readUint32(box, 4))
        after ==
          offsetTfdts(bytes,
                      findBox([data |-> bytes, start |-> trafBox.start,
                               end |-> trafBox.end], <<tfdt>>),
                      timeOffset, IF track = NoTrack THEN 90000 ELSE Timescale(track))
    IN offsetTfhdsAnyTrack(after, table, trafBox, Tail(tfhds), timeOffset)

\* the middle forEach, over the tfhd boxes of one traf
RECURSIVE offsetTfhds(_, _, _, _, _)
offsetTfhds(bytes, table, trafBox, tfhds, timeOffset) ==
  IF tfhds = <<>> THEN bytes
  ELSE
    LET box == [data |-> bytes, start |-> Head(tfhds).start, end |-> Head(tfhds).end]
        track == Track(table, readUint32(box, 4))
        after ==
          IF track = NoTrack THEN bytes
          ELSE offsetTfdts(bytes,
                           findBox([data |-> bytes, start |-> trafBox.start,
                                    end |-> trafBox.end], <<tfdt>>),
                           timeOffset, Timescale(track))
    IN offsetTfhds(after, table, trafBox, Tail(tfhds), timeOffset)

\* the outer forEach, over the trafs found before any rewrite
RECURSIVE offsetTrafs(_, _, _, _)
offsetTrafs(bytes, table, trafs, timeOffset) ==
  IF trafs = <<>> THEN bytes
  ELSE
    LET trafBox == [data |-> bytes, start |-> Head(trafs).start, end |-> Head(trafs).end]
    IN offsetTrafs(offsetTfhds(bytes, table, trafBox, findBox(trafBox, <<tfhd>>),
                               timeOffset),
                   table, Tail(trafs), timeOffset)

\* the bytes of the buffer after offsetStartDTS(initData, fmp4, timeOffset)
offsetStartDTS(table, fmp4, timeOffset) ==
  offsetTrafs(fmp4, table, findBox(Raw(fmp4), <<moof, traf>>), timeOffset)

-----------------------------------------------------------------------------
(* Fragments: one moof of track fragments followed by mdat boxes *)

NoTfdt == [none |-> TRUE]
Tfdt0(base) == [version |-> 0, high |-> base, low |-> 0]
Tfdt1(high, low) == [version |-> 1, high |-> high, low |-> low]

\* a track fragment: id 0 stands for no tfhd box; duration 0 for no
\* default_sample_duration in the tfhd; durations tells whether the run
\* carries a duration per sample
Traf(id, time, duration, durations) ==
  [id |-> id, tfdt |-> time, duration |-> duration, durations |-> durations]

TfhdBytes(t) ==
  IF t.id = 0 THEN <<>>
  ELSE IF t.duration = 0 THEN U32(16) \o tfhd \o <<0, 0, 0, 0>> \o U32(t.id)
  ELSE U32(20) \o tfhd \o <<0, 0, 0, 8>> \o U32(t.id) \o U32(t.duration)

TfdtBytes(t) ==
  IF t.tfdt = NoTfdt THEN <<>>
  ELSE IF t.tfdt.version = 0 THEN U32(16) \o tfdt \o <<0, 0, 0, 0>> \o U32(t.tfdt.high)
  ELSE U32(20) \o tfdt \o <<1, 0, 0, 0>> \o U32(t.tfdt.high) \o U32(t.tfdt.low)

SampleDuration == 3000
SampleSize == 6

\* a run of two samples: sizes always, durations when the fragment has them
TrunBytes(t) ==
  IF t.durations
  THEN U32(32) \o trun \o <<0, 0, 3, 0>> \o U32(2)
       \o U32(SampleDuration) \o U32(SampleSize) \o U32(SampleDuration) \o U32(SampleSize)
  ELSE U32(24) \o trun \o <<0, 0, 2, 0>> \o U32(2) \o U32(SampleSize) \o U32(SampleSize)

TrafLen(t) == 8 + Len(TfhdBytes(t)) + Len(TfdtBytes(t)) + Len(TrunBytes(t))
TrafBytes(t) == U32(TrafLen(t)) \o traf \o TfhdBytes(t) \o TfdtBytes(t) \o TrunBytes(t)

RECURSIVE TrafsBytes(_)
TrafsBytes(ts) == IF ts = <<>> THEN <<>> ELSE TrafBytes(Head(ts)) \o TrafsBytes(Tail(ts))

\* an mdat of two NAL units, one per sample: an SEI and a slice
MdatBytes == U32(8 + 12) \o mdat \o NalBytes(<<[type |-> 6, payload |-> <<1>>],
                                               [type |-> 1, payload |-> <<1>>]>>)

RECURSIVE Mdats(_)
Mdats(n) == IF n = 0 THEN <<>> ELSE MdatBytes \o Mdats(n - 1)

FragmentBytes(f) ==
  U32(8 + Len(TrafsBytes(f.trafs))) \o moof \o TrafsBytes(f.trafs) \o Mdats(f.mdats)

\* the offset in the fragment of the payload of the tfdt of traf k
RECURSIVE TfdtPayload(_, _)
TfdtPayload(ts, k) ==
  IF k = 1 THEN 8 + 8 + Len(TfhdBytes(Head(ts))) + 8
  ELSE TrafLen(Head(ts)) + TfdtPayload(Tail(ts), k - 1)

MaxTrafs == 2
MaxOffsets == 1
Trafs ==
  {Traf(1, Tfdt1(0, 450), 0, TRUE),
   Traf(1, Tfdt1(1, 5), 0, TRUE),
   Traf(2, Tfdt1(2, TopBit + 5), 0, TRUE),
   Traf(1, Tfdt0(90000), 0, TRUE),
   Traf(3, Tfdt1(1, 5), 0, TRUE),
   Traf(1, NoTfdt, 0, TRUE),
   Traf(0, Tfdt1(0, 450), 0, TRUE),
   Traf(2, Tfdt0(TopBit + 7), 1500, FALSE)}

\* the tracks of the init segment: 1 is video, 2 is audio
InitDatas ==
  {[id \in {1, 2} |->
      IF id = 1 THEN [timescale |-> ts, type |-> "video", default |-> d]
      ELSE [timescale |-> 8000, type |-> "audio", default |-> NoDefault]] :
     ts \in {0, 1000}, d \in {NoDefault}}
TimeOffsets == {10, -1}

\* the fragments: one to MaxTrafs different track fragments, each with its mdat,
\* and the fragments of one track fragment and two mdats
Fragments ==
  {[kind |-> "fragment", trafs |-> ts, mdats |-> Len(ts)] :
     ts \in {s \in SeqsUpTo(Trafs, MaxTrafs) \ {<<>>} :
               \A i, j \in 1..Len(s) : i # j => s[i] # s[j]}}
  \cup {[kind |-> "fragment", trafs |-> <<t>>, mdats |-> 2] : t \in Trafs}

FragInit ==
  /\ \E f \in Fragments :
       /\ written = f
       /\ data = FragmentBytes(written)
  /\ initData \in InitDatas
  /\ op = "none"
  /\ arg = <<>>
  /\ ret = <<>>
  /\ calls = 0

GetStartDTS ==
  /\ op' = "getStartDTS"
  /\ arg' = <<>>
  /\ ret' = getStartDTS(initData, data)
  /\ UNCHANGED <<data, written, initData, calls>>

GetDuration ==
  /\ op' = "getDuration"
  /\ arg' = <<>>
  /\ ret' = getDuration(data, initData)
  /\ UNCHANGED <<data, written, initData, calls>>

ParseCaptionNals ==
  /\ op' = "parseCaptionNals"
  /\ arg' = [videoTrackId |-> 1]
  /\ ret' = parseCaptionNals(data, 1)
  /\ UNCHANGED <<data, written, initData, calls>>

\* offsetStartDTS(initData, fmp4, timeOffset); arg keeps the bytes it was given
OffsetStartDTS ==
  /\ calls < MaxOffsets
  /\ \E timeOffset \in TimeOffsets :
       /\ op' = "offsetStartDTS"
       /\ arg' = [timeOffset |-> timeOffset, before |-> data]
       /\ data' = offsetStartDTS(initData, data, timeOffset)
  /\ ret' = <<>>
  /\ calls' = calls + 1
  /\ UNCHANGED <<written, initData>>

\* the boxes of a sequence findBox returned
BoxesOf(boxes) == {boxes[k] : k \in 1..Len(boxes)}

\* parseTfdt(tfdt) on one of the tfdt boxes of the fragment; arg keeps where
\* its payload starts
ParseTfdt ==
  /\ \E box \in BoxesOf(findBox(Raw(data), <<moof, traf, tfdt>>)) :
       /\ arg' = [start |-> box.start]
       /\ ret' = parseTfdt(box)
  /\ op' = "parseTfdt"
  /\ UNCHANGED <<data, written, initData, calls>>

FragNext ==
  GetStartDTS \/ GetDuration \/ ParseCaptionNals \/ OffsetStartDTS \/ ParseTfdt

SpecFrag == FragInit /\ [][FragNext]_vars

\* C6: getStartDTS, getDuration and parseCaptionNals raise nothing when a box
\* they look for is absent from the fragment: they return a value
C6_NoThrowOnAbsentBox ==
  op \in {"getStartDTS", "getDuration", "parseCaptionNals"} => ret.kind # "throw"

\* the big-endian word at byte offset o of bytes
WordAt(bytes, o) ==
  bytes[o + 1] * Radix * Radix * Radix + bytes[o + 2] * Radix * Radix
  + bytes[o + 3] * Radix + bytes[o + 4]

KnownV1(k) ==
  /\ written.trafs[k].id \in DOMAIN initData
  /\ written.trafs[k].tfdt # NoTfdt
  /\ written.trafs[k].tfdt.version = 1

\* the 64-bit time the claim expects in the tfdt of traf k after the call
ExpectedTime(k) ==
  LET o == TfdtPayload(written.trafs, k)
      old == WordAt(arg.before, o + 4) * WordRadix + WordAt(arg.before, o + 8)
      scale == IF initData[written.trafs[k].id].timescale = 0 THEN 90000
               ELSE initData[written.trafs[k].id].timescale
      moved == old - arg.timeOffset * scale
  IN IF moved > 0 THEN moved ELSE 0

\* C10: after offsetStartDTS, each version-1 tfdt of a known track holds
\* max(old - timeOffset * timescale, 0): its high word, the time divided by the
\* word radix, at payload offset 4 and its low word, the remainder, at offset 8
C10_Version1Rewrite ==
  op = "offsetStartDTS" =>
    \A k \in 1..Len(written.trafs) :
      KnownV1(k) =>
        /\ WordAt(data, TfdtPayload(written.trafs, k) + 4) = ExpectedTime(k) \div WordRadix
        /\ WordAt(data, TfdtPayload(written.trafs, k) + 8) = ExpectedTime(k) % WordRadix

\* a call that clamps one version-1 time at zero and borrows from the high
\* word of another
C10_Witness ==
  /\ op = "offsetStartDTS"
  /\ \E k \in 1..Len(written.trafs) :
       /\ KnownV1(k)
       /\ WordAt(arg.before, TfdtPayload(written.trafs, k) + 8) > 0
       /\ ExpectedTime(k) = 0
  /\ \E k \in 1..Len(written.trafs) :
       /\ KnownV1(k)
       /\ WordAt(arg.before, TfdtPayload(written.trafs, k) + 4) = 1
       /\ WordAt(data, TfdtPayload(written.trafs, k) + 4) = 0
       /\ WordAt(data, TfdtPayload(written.trafs, k) + 8) > 0

KnownV0(k) ==
  /\ written.trafs[k].id \in DOMAIN initData
  /\ written.trafs[k].tfdt # NoTfdt
  /\ written.trafs[k].tfdt.version = 0

\* the difference a version-0 tfdt of traf k is rewritten with
MovedTime(k) ==
  WordAt(arg.before, TfdtPayload(written.trafs, k) + 4)
  - arg.timeOffset * (IF initData[written.trafs[k].id].timescale = 0 THEN 90000
                      ELSE initData[written.trafs[k].id].timescale)

\* C11: after offsetStartDTS, each version-0 tfdt of a known track holds at
\* payload offset 4 the word (old - timeOffset * timescale) modulo the word
\* radix, wrapped and not clamped when the difference is negative, and the four
\* bytes from payload offset 8 are as they were before
C11_Version0Rewrite ==
  op = "offsetStartDTS" =>
    \A k \in 1..Len(written.trafs) :
      KnownV0(k) =>
        /\ WordAt(data, TfdtPayload(written.trafs, k) + 4) = MovedTime(k) % WordRadix
        /\ WordAt(data, TfdtPayload(written.trafs, k) + 8)
             = WordAt(arg.before, TfdtPayload(written.trafs, k) + 8)

\* a call that takes a version-0 time below zero: its wrap-around is stored
C11_Witness ==
  /\ op = "offsetStartDTS"
  /\ \E k \in 1..Len(written.trafs) :
       /\ KnownV0(k)
       /\ MovedTime(k) < 0
       /\ WordAt(data, TfdtPayload(written.trafs, k) + 4) = WordRadix + MovedTime(k)

\* the indices (from 1) of the bytes offsetStartDTS may change: payload bytes
\* 4..7 of a version-0 tfdt and 4..11 of a version-1 tfdt of a known track
Rewritable ==
  UNION {(TfdtPayload(written.trafs, k) + 5) ..
           (TfdtPayload(written.trafs, k)
              + (IF written.trafs[k].tfdt.version = 0 THEN 8 ELSE 12)) :
         k \in {n \in 1..Len(written.trafs) :
                  /\ written.trafs[n].id \in DOMAIN initData
                  /\ written.trafs[n].tfdt # NoTfdt}}

\* C12: a step of offsetStartDTS changes bytes of the buffer only inside the
\* decode-time fields of the tfdt boxes of known tracks (and never its length),
\* and a step of any other operation changes no byte at all
C12_OnlyTfdtRewritten ==
  [][/\ Len(data') = Len(data)
     /\ op' = "offsetStartDTS" =>
          {i \in 1..Len(data) : data'[i] # data[i]} \subseteq Rewritable
     /\ op' # "offsetStartDTS" => data' = data]_vars

\* a call that rewrote the buffer although one of its trafs, with a tfdt of its
\* own, belongs to a track the table does not have
C12_Witness ==
  /\ op = "offsetStartDTS"
  /\ data # arg.before
  /\ \E k \in 1..Len(written.trafs) :
       /\ written.trafs[k].id \notin DOMAIN initData
       /\ written.trafs[k].id # 0
       /\ written.trafs[k].tfdt # NoTfdt

\* the decode time in the tfdt whose payload starts at byte offset o: the word
\* at offset 4, or for version 1 that word times the word radix plus the word
\* at offset 8
TfdtTime(bytes, o) ==
  IF bytes[o + 1] = 1 THEN WordAt(bytes, o + 4) * WordRadix + WordAt(bytes, o + 8)
  ELSE WordAt(bytes, o + 4)

FracEq(x, y) == ~FracLess(x, y) /\ ~FracLess(y, x)

\* the trafs of a known track that have a tfdt
Timed ==
  {k \in 1..Len(written.trafs) :
     written.trafs[k].id \in DOMAIN initData /\ written.trafs[k].tfdt # NoTfdt}

\* the start time of traf k in seconds
StartTime(k) ==
  Frac(TfdtTime(data, TfdtPayload(written.trafs, k)),
       IF initData[written.trafs[k].id].timescale = 0 THEN 90000
       ELSE initData[written.trafs[k].id].timescale)

IsEarliest(v) ==
  IF Timed = {} THEN v = Zero
  ELSE /\ \E k \in Timed : FracEq(v, StartTime(k))
       /\ \A k \in Timed : ~FracLess(StartTime(k), v)

\* C13: getStartDTS returns the least start time (decode time over timescale,
\* 90000 for a timescale of 0) among the trafs of known tracks, and 0 when no
\* traf gives one
C13_StartIsEarliest ==
  op = "getStartDTS" => ret.kind = "ok" /\ IsEarliest(ret.value)

\* the same on the fragments all of whose trafs have a tfdt
C13_StartIsEarliestOfTimed ==
  (op = "getStartDTS" /\ \A k \in 1..Len(written.trafs) : written.trafs[k].tfdt # NoTfdt)
    => ret.kind = "ok" /\ IsEarliest(ret.value)

\* two trafs of known tracks with different timescales, the later in the file
\* the earlier in time
C13_TimedWitness ==
  /\ op = "getStartDTS"
  /\ Len(written.trafs) = 2
  /\ Timed = {1, 2}
  /\ FracLess(StartTime(2), StartTime(1))
  /\ ret = Ok(StartTime(2))

\* C14: parseTfdt decodes from a tfdt the unsigned word at offset 4 (version
\* 0) or that word times the word radix plus the unsigned word at offset 8
\* (version 1), and getStartDTS on a fragment of that one tfdt, of a known
\* track, returns the same time over the timescale
C14_SameDecodeTime ==
  /\ op = "parseTfdt" => ret.baseMediaDecodeTime = TfdtTime(data, arg.start)
  /\ (op = "getStartDTS" /\ Len(written.trafs) = 1 /\ Timed = {1}) =>
       /\ ret.kind = "ok"
       /\ ret.value.num = StartTime(1).num
       /\ StartTime(1).num # 0 => ret.value.den = StartTime(1).den

\* parseTfdt on a version-1 tfdt whose low word has the top bit set and whose
\* high word is not zero
C14_Witness ==
  /\ op = "parseTfdt"
  /\ data[arg.start + 1] = 1
  /\ WordAt(data, arg.start + 4) > 0
  /\ WordAt(data, arg.start + 8) >= TopBit
  /\ ret.baseMediaDecodeTime >= WordRadix + TopBit

\* getStartDTS on a fragment of one version-0 tfdt whose word has the top bit set
C14_StartWitness ==
  /\ op = "getStartDTS"
  /\ Len(written.trafs) = 1
  /\ Timed = {1}
  /\ written.trafs[1].tfdt.version = 0
  /\ ret.kind = "ok"
  /\ ret.value.num >= TopBit

-----------------------------------------------------------------------------
(* Timed metadata: emsg boxes carrying ID3 *)

\* 'https://aomedia.org/emsg/ID3'
SchemeAom ==
  <<104, 116, 116, 112, 115, 58, 47, 47, 97, 111, 109, 101, 100, 105, 97, 46,
    111, 114, 103, 47, 101, 109, 115, 103, 47, 73, 68, 51>>
\* 'https://developer.apple.com/streaming/emsg-id3'
SchemeApple ==
  <<104, 116, 116, 112, 115, 58, 47, 47, 100, 101, 118, 101, 108, 111, 112,
    101, 114, 46, 97, 112, 112, 108, 101, 46, 99, 111, 109, 47, 115, 116, 114,
    101, 97, 109, 105, 110, 103, 47, 101, 109, 115, 103, 45, 105, 100, 51>>
\* 'urn:scte:scte35:2013:bin'
SchemeOther ==
  <<117, 114, 110, 58, 115, 99, 116, 101, 58, 115, 99, 116, 101, 51, 53, 58,
    50, 48, 49, 51, 58, 98, 105, 110>>
ID3_SCHEME_ID_URIS == <<SchemeAom, SchemeApple>>

\* the index where the loop of readNullTerminatedString stops: at a zero
\* octet, or past the end, where buffer[i] is undefined and reads as '\0'
RECURSIVE terminator(_, _)
terminator(buffer, i) ==
  IF i >= Len(buffer) THEN i
  ELSE IF buffer[i + 1] = 0 THEN i
  ELSE terminator(buffer, i + 1)

readNullTerminatedString(buffer, offset) ==
  bin2str(subarray(buffer, offset, terminator(buffer, offset)))

\* what the callback of emsgs.map returns where it returns no record
UndefinedEntry == [undefined |-> TRUE]

\* the callback of emsgs.map in parseId3TrackSamples; each exception of a
\* DataView read is caught and the callback returns undefined
id3Sample(box) ==
  LET bytes == subarray(box.data, box.start, box.end)
  IN IF Len(bytes) < 1 THEN UndefinedEntry
     ELSE IF bytes[1] # 1 THEN UndefinedEntry
     ELSE IF ~InView(bytes, 4) \/ ~InView(bytes, 8) \/ ~InView(bytes, 12)
             \/ ~InView(bytes, 16) \/ ~InView(bytes, 20)
     THEN UndefinedEntry
     ELSE
       LET timescale == getUint32(bytes, 4)
           presentationTime == getUint32(bytes, 8) * WordRadix + getUint32(bytes, 12)
           eventDuration == getUint32(bytes, 16)
           id == getUint32(bytes, 20)
           schemeIdUri == readNullTerminatedString(bytes, 24)
           offset == 24 + Len(schemeIdUri) + 1
           value == readNullTerminatedString(bytes, offset)
       IN IF \A k \in 1..Len(ID3_SCHEME_ID_URIS) : ID3_SCHEME_ID_URIS[k] # schemeIdUri
          THEN UndefinedEntry
          ELSE [timescale |-> timescale,
                pts |-> presentationTime,
                dts |-> presentationTime,
                duration |-> IF eventDuration # UINT32_MAX THEN eventDuration
                             ELSE Undefined,
                id |-> id,
                schemeIdUri |-> schemeIdUri,
                value |-> value,
                data |-> subarray(bytes, offset + Len(value) + 1, Len(bytes))]

parseId3TrackSamples(bytes) ==
  LET emsgs == findBox(Raw(bytes), <<emsg>>)
  IN [k \in 1..Len(emsgs) |-> id3Sample(emsgs[k])]

\* an emsg box: cut < 0 for the whole payload, else the payload is cut
\* short after cut octets
Emsg(version, scheme, duration, id, cut) ==
  [version |-> version, scheme |-> scheme, duration |-> duration, id |-> id,
   cut |-> cut]
EmsgValue == <<49>>
EmsgData == <<73, 68, 51>>
EmsgPresentationTime == 180000
EmsgPayload(e) ==
  LET whole == <<e.version, 0, 0, 0>> \o U32(90000) \o U32(0) \o U32(EmsgPresentationTime)
               \o U32(e.duration) \o U32(e.id) \o e.scheme \o <<0>>
               \o EmsgValue \o <<0>> \o EmsgData
  IN IF e.cut < 0 THEN whole ELSE subarray(whole, 0, e.cut)
EmsgBytes(e) == U32(8 + Len(EmsgPayload(e))) \o emsg \o EmsgPayload(e)

RECURSIVE EmsgsBytes(_)
EmsgsBytes(es) == IF es = <<>> THEN <<>> ELSE EmsgBytes(Head(es)) \o EmsgsBytes(Tail(es))

MaxEmsgs == 2
Emsgs ==
  {Emsg(1, SchemeAom, 1000, 1, -1),
   Emsg(1, SchemeApple, UINT32_MAX, 2, -1),
   Emsg(0, SchemeAom, 1000, 3, -1),
   Emsg(1, SchemeOther, 1000, 4, -1),
   Emsg(1, SchemeAom, 1000, 5, 10),
   Emsg(1, SchemeAom, 1000, 6, 30),
   Emsg(1, SchemeAom, 1000, 7, 0)}

EmsgInit ==
  /\ \E es \in SeqsUpTo(Emsgs, MaxEmsgs) :
       /\ written = [kind |-> "emsgs", boxes |-> es]
       /\ data = EmsgsBytes(es)
  /\ initData = <<>>
  /\ op = "none"
  /\ arg = <<>>
  /\ ret = <<>>
  /\ calls = 0

ParseId3TrackSamples ==
  /\ op' = "parseId3TrackSamples"
  /\ arg' = <<>>
  /\ ret' = parseId3TrackSamples(data)
  /\ UNCHANGED <<data, written, initData, calls>>

\* readNullTerminatedString on the payload of the first emsg box
ReadNullTerminatedString ==
  /\ \E offset \in {24, 24 + Len(SchemeAom) + 1, 24 + Len(SchemeApple) + 1, Len(data)} :
       /\ op' = "readNullTerminatedString"
       /\ arg' = [offset |-> offset]
       /\ ret' = readNullTerminatedString(subarray(data, 8, Len(data)), offset)
  /\ UNCHANGED <<data, written, initData, calls>>

EmsgNext == ParseId3TrackSamples \/ ReadNullTerminatedString

SpecEmsg == EmsgInit /\ [][EmsgNext]_vars

\* an emsg that parseId3TrackSamples is to decode: version 1, a scheme URI of
\* the allow-list, all its fields in the box
Decodable(e) ==
  /\ e.version = 1
  /\ e.scheme \in {SchemeAom, SchemeApple}
  /\ e.cut < 0

\* the record of a decodable emsg
RecordOf(e) ==
  [timescale |-> 90000, pts |-> EmsgPresentationTime, dts |-> EmsgPresentationTime,
   duration |-> IF e.duration = UINT32_MAX THEN Undefined ELSE e.duration,
   id |-> e.id, schemeIdUri |-> e.scheme, value |-> EmsgValue, data |-> EmsgData]

RECURSIVE RecordsOf(_)
RecordsOf(es) ==
  IF es = <<>> THEN <<>>
  ELSE (IF Decodable(Head(es)) THEN <<RecordOf(Head(es))>> ELSE <<>>)
       \o RecordsOf(Tail(es))

\* C8: parseId3TrackSamples returns, in box order, the records of the emsg
\* boxes it can decode and nothing else: a skipped or malformed emsg adds no
\* element to the result
C8_NoPlaceholders ==
  op = "parseId3TrackSamples" => ret = RecordsOf(written.boxes)

-----------------------------------------------------------------------------
(* Track runs: a tfhd box followed by trun boxes, as in one traf *)

\* a run: bits are the per-sample presence bits (1 duration, 2 size, 4 flags,
\* 8 composition time offset: the second flags octet), head the bits of the
\* third flags octet (1 data offset, 4 first sample flags), count the samples
Run(bits, head, count) == [bits |-> bits, head |-> head, count |-> count]

\* the fields written for sample j of run n, each its own number
DurationOf(n, j) == 100 * n + 10 * j + 1
SizeOf(n, j) == 100 * n + 10 * j + 2
OffsetOf(n, j) == 100 * n + 10 * j + 4

\* the array of run n from sample j on: every field the bits announce, in the
\* order duration, size, flags, composition time offset
RECURSIVE RunSampleBytes(_, _, _)
RunSampleBytes(r, n, j) ==
  IF j > r.count THEN <<>>
  ELSE (IF HasBit(r.bits, 1) THEN U32(DurationOf(n, j)) ELSE <<>>)
       \o (IF HasBit(r.bits, 2) THEN U32(SizeOf(n, j)) ELSE <<>>)
       \o (IF HasBit(r.bits, 4) THEN U32(3) ELSE <<>>)
       \o (IF HasBit(r.bits, 8) THEN U32(OffsetOf(n, j)) ELSE <<>>)
       \o RunSampleBytes(r, n, j + 1)

RunPayload(r, n) ==
  <<0, 0, r.bits, r.head>> \o U32(r.count)
  \o (IF HasBit(r.head, 1) THEN U32(77) ELSE <<>>)
  \o (IF HasBit(r.head, 4) THEN U32(5) ELSE <<>>)
  \o RunSampleBytes(r, n, 1)

RECURSIVE RunsBytes(_, _)
RunsBytes(runs, n) ==
  IF n > Len(runs) THEN <<>>
  ELSE U32(8 + Len(RunPayload(runs[n], n))) \o trun \o RunPayload(runs[n], n)
       \o RunsBytes(runs, n + 1)

\* a tfhd of track 1 with the defaults d: a duration, a size, or neither
HeaderBytes(d) ==
  U32(16 + (IF d.duration # 0 THEN 4 ELSE 0) + (IF d.size # 0 THEN 4 ELSE 0)) \o tfhd
  \o <<0, 0, 0, (IF d.duration # 0 THEN 8 ELSE 0) + (IF d.size # 0 THEN 16 ELSE 0)>>
  \o U32(1)
  \o (IF d.duration # 0 THEN U32(d.duration) ELSE <<>>)
  \o (IF d.size # 0 THEN U32(d.size) ELSE <<>>)

MaxTruns == 2
MaxSamples == 2

Runs ==
  {Run(0, 0, 0)}
  \cup {Run(b, h, c) : b \in 0..15, h \in {0, 1, 4, 5}, c \in 1..MaxSamples}
LaterRuns == {Run(1, 0, 1), Run(0, 0, 2), Run(11, 4, 2)}
Defaults == {[duration |-> 0, size |-> 0], [duration |-> 1500, size |-> 9]}
DecodeTimes == {0, 450}

TrunInit ==
  /\ \E first \in Runs, later \in SeqsUpTo(LaterRuns, MaxTruns - 1), d \in Defaults :
       /\ written = [kind |-> "runs", defaults |-> d, runs |-> <<first>> \o later]
       /\ data = HeaderBytes(d) \o RunsBytes(<<first>> \o later, 1)
  /\ initData = <<>>
  /\ op = "none"
  /\ arg = <<>>
  /\ ret = <<>>
  /\ calls = 0

\* parseSamples(truns, baseMediaDecodeTime, tfhd) on the runs and the parsed
\* header of the buffer
ParseSamples ==
  /\ \E baseMediaDecodeTime \in DecodeTimes :
       /\ arg' = [baseMediaDecodeTime |-> baseMediaDecodeTime]
       /\ ret' = parseSamples(findBox(Raw(data), <<trun>>), baseMediaDecodeTime,
                              parseTfhd(findBox(Raw(data), <<tfhd>>)[1]).value)
  /\ op' = "parseSamples"
  /\ UNCHANGED <<data, written, initData, calls>>

ComputeRawDurationFromSamples ==
  /\ \E n \in 1..Len(written.runs) :
       /\ arg' = [trun |-> n]
       /\ ret' = computeRawDurationFromSamples(findBox(Raw(data), <<trun>>)[n])
  /\ op' = "computeRawDurationFromSamples"
  /\ UNCHANGED <<data, written, initData, calls>>

ParseTrun ==
  /\ \E n \in 1..Len(written.runs) :
       /\ arg' = [trun |-> n]
       /\ ret' = parseTrun(findBox(Raw(data), <<trun>>)[n])
  /\ op' = "parseTrun"
  /\ UNCHANGED <<data, written, initData, calls>>

TrunNext == ParseSamples \/ ComputeRawDurationFromSamples \/ ParseTrun

SpecTrun == TrunInit /\ [][TrunNext]_vars

RECURSIVE WrittenDurations(_, _)
WrittenDurations(n, j) == IF j = 0 THEN 0 ELSE DurationOf(n, j) + WrittenDurations(n, j - 1)

\* C17: computeRawDurationFromSamples returns the sum of the duration fields of
\* the run, found by stepping four bytes over every field the presence bits
\* announce, and 0 when the bits announce no duration
C17_SumOfDurations ==
  op = "computeRawDurationFromSamples" =>
    ret = IF HasBit(written.runs[arg.trun].bits, 1)
          THEN WrittenDurations(arg.trun, written.runs[arg.trun].count)
          ELSE 0

\* a run of several samples with all four fields
C17_Witness ==
  /\ op = "computeRawDurationFromSamples"
  /\ written.runs[arg.trun].bits = 15
  /\ written.runs[arg.trun].count >= 2
  /\ ret = WrittenDurations(arg.trun, written.runs[arg.trun].count)

\* the samples written before run n
RECURSIVE SamplesBefore(_)
SamplesBefore(n) == IF n = 1 THEN 0 ELSE written.runs[n - 1].count + SamplesBefore(n - 1)

\* a run whose layout parseTrun and the producer agree on
Plain(r) == ~(HasBit(r.head, 4) /\ HasBit(r.bits, 4))

\* C18: parseSamples returns the samples of the runs in file order, the first
\* with the base decode time as dts and each later one with the dts of the one
\* before plus its duration, also from one run to the next
C18_DtsChain ==
  op = "parseSamples" =>
    /\ ret.kind = "ok"
    /\ Len(ret.value) = SamplesBefore(Len(written.runs) + 1)
    /\ Len(ret.value) > 0 => ret.value[1].dts = arg.baseMediaDecodeTime
    /\ \A i \in 2..Len(ret.value) :
         /\ ret.value[i].dts = ret.value[i - 1].dts + ret.value[i - 1].duration
         /\ ret.value[i].dts >= ret.value[i - 1].dts
    /\ \A n \in 1..Len(written.runs) : \A j \in 1..written.runs[n].count :
         (Plain(written.runs[n]) /\ HasBit(written.runs[n].bits, 2)) =>
           ret.value[SamplesBefore(n) + j].size = SizeOf(n, j)

\* two runs with durations of their own: the second run goes on where the
\* first ended
C18_Witness ==
  /\ op = "parseSamples"
  /\ Len(written.runs) = 2
  /\ written.runs[1].count = 2
  /\ HasBit(written.runs[1].bits, 1)
  /\ Plain(written.runs[1])
  /\ ret.kind = "ok"
  /\ ret.value[3].dts
       = arg.baseMediaDecodeTime + DurationOf(1, 1) + DurationOf(1, 2)
  /\ arg.baseMediaDecodeTime > 0

\* the run that sample i of the result comes from
RECURSIVE RunOfSample(_, _)
RunOfSample(i, n) ==
  IF i <= SamplesBefore(n + 1) THEN written.runs[n] ELSE RunOfSample(i, n + 1)

\* C19: every sample of parseSamples has a duration, a size and a composition
\* time offset: where the run leaves the field out, the default of the tfhd (0
\* when it has none) for duration and size and 0 for the composition time
\* offset; and its pts is its dts plus its composition time offset
C19_FieldsDefined ==
  op = "parseSamples" =>
    /\ ret.kind = "ok"
    /\ \A i \in 1..Len(ret.value) :
         /\ ret.value[i].duration # Undefined
         /\ ret.value[i].size # Undefined
         /\ ret.value[i].compositionTimeOffset # Undefined
         /\ ret.value[i].pts = ret.value[i].dts + ret.value[i].compositionTimeOffset
         /\ ~HasBit(RunOfSample(i, 1).bits, 1) =>
              ret.value[i].duration = written.defaults.duration
         /\ ~HasBit(RunOfSample(i, 1).bits, 2) =>
              ret.value[i].size = written.defaults.size
         /\ ~HasBit(RunOfSample(i, 1).bits, 8) =>
              ret.value[i].compositionTimeOffset = 0

\* a run without durations and sizes under a tfhd that has both defaults, and
\* a run with composition time offsets
C19_Witness ==
  /\ op = "parseSamples"
  /\ written.defaults.duration = 1500
  /\ Len(written.runs) = 2
  /\ written.runs[1] = Run(8, 0, 2)
  /\ written.runs[2] = Run(0, 0, 2)
  /\ ret.kind = "ok"
  /\ ret.value[2].pts = ret.value[2].dts + OffsetOf(1, 2)
  /\ ret.value[4].dts = ret.value[1].dts + 3 * 1500
  /\ ret.value[4].size = 9

\* the sum of the duration fields parseTrun decoded, none counting as 0
RECURSIVE ExplicitDurations(_)
ExplicitDurations(samples) ==
  IF samples = <<>> THEN 0
  ELSE (IF Head(samples).duration = Undefined THEN 0 ELSE Head(samples).duration)
       + ExplicitDurations(Tail(samples))

\* C28: under every combination of the flags of a trun, first-sample-flags
\* together with sample-flags included, the sum of the durations of the
\* samples parseTrun decodes from the box is what
\* computeRawDurationFromSamples returns for it
C28_SameDurations ==
  op = "parseTrun" =>
    /\ ret.kind = "ok"
    /\ ExplicitDurations(ret.value.samples)
         = computeRawDurationFromSamples(findBox(Raw(data), <<trun>>)[arg.trun])

\* the same for the runs that do not have both first-sample-flags and
\* sample-flags
C28_SameDurationsPlain ==
  (op = "parseTrun" /\ Plain(written.runs[arg.trun])) =>
    /\ ret.kind = "ok"
    /\ ExplicitDurations(ret.value.samples)
         = computeRawDurationFromSamples(findBox(Raw(data), <<trun>>)[arg.trun])

\* a run of two samples with data offset, first sample flags and every
\* per-sample field but the flags
C28_PlainWitness ==
  /\ op = "parseTrun"
  /\ written.runs[arg.trun] = Run(11, 5, 2)
  /\ ret.kind = "ok"
  /\ ExplicitDurations(ret.value.samples) = DurationOf(arg.trun, 1) + DurationOf(arg.trun, 2)

-----------------------------------------------------------------------------
(* The initialization segment: parseInitSegment *)

trak == <<116, 114, 97, 107>>
tkhd == <<116, 107, 104, 100>>
mdia == <<109, 100, 105, 97>>
mdhd == <<109, 100, 104, 100>>
hdlr == <<104, 100, 108, 114>>
minf == <<109, 105, 110, 102>>
stbl == <<115, 116, 98, 108>>
stsd == <<115, 116, 115, 100>>
mvex == <<109, 118, 101, 120>>
trex == <<116, 114, 101, 120>>
soun == <<115, 111, 117, 110>>
vide == <<118, 105, 100, 101>>
hint == <<104, 105, 110, 116>>
avc1 == <<97, 118, 99, 49>>

\* the InitData array: table is its numbered part (track id to track), audio
\* and video its two named properties, Null while not set
EmptyInitData == [table |-> <<>>, audio |-> Null, video |-> Null]

\* result[trackId] = track
Put(table, id, track) ==
  [k \in DOMAIN table \cup {id} |-> IF k = id THEN track ELSE table[k]]

\* { soun: AUDIO, vide: VIDEO }[hdlrType]
HdlrType(hdlrType) ==
  IF hdlrType = soun THEN "audio" ELSE IF hdlrType = vide THEN "video" ELSE "undefined"

\* codec of a trak: the format of the first entry of its stsd, if it has one
codecOf(stsdBoxes) ==
  IF Len(stsdBoxes) = 0 THEN UndefinedEntry
  ELSE [str |-> bin2str(subarray(stsdBoxes[1].data, stsdBoxes[1].start + 12,
                                  stsdBoxes[1].start + 16))]

\* result[trackId] = {timescale, type}; result[type] = {timescale, id, codec}
trackSet(result, trackId, timescale, type, codec) ==
  [table |-> Put(result.table, trackId,
                 [timescale |-> timescale, type |-> type, default |-> NoDefault]),
   audio |-> IF type = "audio"
             THEN [timescale |-> timescale, id |-> trackId, codec |-> codec]
             ELSE result.audio,
   video |-> IF type = "video"
             THEN [timescale |-> timescale, id |-> trackId, codec |-> codec]
             ELSE result.video]

\* the body of the loop over the traks, in stages that take the boxes found
trackOfType(result, trakBox, trackId, timescale, type) ==
  IF type = "undefined" THEN result
  ELSE trackSet(result, trackId, timescale, type,
                codecOf(findBox(trakBox, <<mdia, minf, stbl, stsd>>)))

trackOfHdlr(result, trakBox, trackId, timescale, hdlrBoxes) ==
  IF Len(hdlrBoxes) = 0 THEN result
  ELSE trackOfType(result, trakBox, trackId, timescale,
                   HdlrType(bin2str(subarray(hdlrBoxes[1].data, hdlrBoxes[1].start + 8,
                                             hdlrBoxes[1].start + 12))))

trackOfMdhd(result, trakBox, trackId, mdhdBoxes) ==
  IF Len(mdhdBoxes) = 0 THEN result
  ELSE trackOfHdlr(result, trakBox, trackId,
                   readUint32(mdhdBoxes[1], IF FirstByte(mdhdBoxes[1]) = 0 THEN 12 ELSE 20),
                   findBox(trakBox, <<mdia, hdlr>>))

\* the same with the track id read where a version-0 tkhd has it
trackOfTkhdAt12(result, trakBox, tkhdBoxes) ==
  IF Len(tkhdBoxes) = 0 THEN result
  ELSE trackOfMdhd(result, trakBox, readUint32(tkhdBoxes[1], 12),
                   findBox(trakBox, <<mdia, mdhd>>))

trackOfTkhd(result, trakBox, tkhdBoxes) ==
  IF Len(tkhdBoxes) = 0 THEN result
  ELSE trackOfMdhd(result, trakBox,
                   readUint32(tkhdBoxes[1], IF FirstByte(tkhdBoxes[1]) = 0 THEN 12 ELSE 20),
                   findBox(trakBox, <<mdia, mdhd>>))

\* the loop over the traks
RECURSIVE tracksOf(_, _)
tracksOf(result, traks) ==
  IF traks = <<>> THEN result
  ELSE tracksOf(trackOfTkhd(result, Head(traks), findBox(Head(traks), <<tkhd>>)),
                Tail(traks))

\* the callback of trex.forEach
trackDefault(result, trexBox, trackId) ==
  IF trackId \in DOMAIN result.table
  THEN [result EXCEPT !.table[trackId].default =
          [duration |-> readUint32(trexBox, 12), flags |-> readUint32(trexBox, 20)]]
  ELSE result

RECURSIVE trackDefaults(_, _)
trackDefaults(result, trexes) ==
  IF trexes = <<>> THEN result
  ELSE trackDefaults(trackDefault(result, Head(trexes), readUint32(Head(trexes), 4)),
                     Tail(trexes))

parseInitSegment(initSegment) ==
  trackDefaults(tracksOf(EmptyInitData, findBox(Raw(initSegment), <<moov, trak>>)),
                findBox(Raw(initSegment), <<moov, mvex, trex>>))

\* a trak as a producer writes it: missing names the one box left out
Trak(id, tkhdVersion, timescale, mdhdVersion, handler, missing) ==
  [id |-> id, tkhdVersion |-> tkhdVersion, timescale |-> timescale,
   mdhdVersion |-> mdhdVersion, handler |-> handler, missing |-> missing]
Trex(id, duration) == [id |-> id, duration |-> duration, flags |-> 65]

Box(type, payload) == U32(8 + Len(payload)) \o type \o payload

\* creation and modification time, 32 bits wide in version 0 and 64 in version 1
Times(version) ==
  IF version = 0 THEN U32(7001) \o U32(7002)
  ELSE U32(0) \o U32(7001) \o U32(0) \o U32(7002)

TkhdBytes(t) ==
  IF t.missing = "tkhd" THEN <<>>
  ELSE Box(tkhd, <<t.tkhdVersion, 0, 0, 7>> \o Times(t.tkhdVersion) \o U32(t.id)
                 \o U32(0) \o U32(7003) \o U32(7004))

MdhdBytes(t) ==
  IF t.missing = "mdhd" THEN <<>>
  ELSE Box(mdhd, <<t.mdhdVersion, 0, 0, 0>> \o Times(t.mdhdVersion) \o U32(t.timescale)
                 \o U32(7005) \o U32(7006))

HdlrBytes(t) ==
  IF t.missing = "hdlr" THEN <<>>
  ELSE Box(hdlr, <<0, 0, 0, 0>> \o U32(0) \o t.handler \o U32(0))

StsdBytes(t) ==
  IF t.missing = "stsd" THEN <<>>
  ELSE Box(minf, Box(stbl, Box(stsd, <<0, 0, 0, 0>> \o U32(1) \o U32(8) \o avc1)))

TrakBytes(t) ==
  Box(trak, TkhdBytes(t) \o Box(mdia, MdhdBytes(t) \o HdlrBytes(t) \o StsdBytes(t)))

RECURSIVE TraksBytes(_)
TraksBytes(ts) == IF ts = <<>> THEN <<>> ELSE TrakBytes(Head(ts)) \o TraksBytes(Tail(ts))

TrexBytes(x) ==
  Box(trex, <<0, 0, 0, 0>> \o U32(x.id) \o U32(1) \o U32(x.duration) \o U32(7007)
            \o U32(x.flags))

RECURSIVE TrexesBytes(_)
TrexesBytes(xs) == IF xs = <<>> THEN <<>> ELSE TrexBytes(Head(xs)) \o TrexesBytes(Tail(xs))

InitSegmentBytes(w) ==
  Box(moov, TraksBytes(w.traks)
            \o (IF w.trexes = <<>> THEN <<>> ELSE Box(mvex, TrexesBytes(w.trexes))))

MaxTraks == 2
MaxTrexes == 1

Traks ==
  {Trak(1, 0, 90000, 0, vide, "none"), Trak(1, 1, 90000, 1, vide, "none"),
   Trak(2, 0, 48000, 1, soun, "none"), Trak(2, 1, 48000, 0, soun, "stsd"),
   Trak(3, 0, 1000, 0, hint, "none"),
   Trak(1, 0, 44100, 0, soun, "none"), Trak(4, 1, 30000, 0, vide, "none"),
   Trak(5, 0, 90000, 0, vide, "tkhd"), Trak(5, 1, 90000, 0, vide, "mdhd"),
   Trak(5, 0, 90000, 1, soun, "hdlr")}
Trexes == {Trex(1, 1024), Trex(2, 0), Trex(3, 512), Trex(9, 1024)}

InitSegmentInit ==
  /\ \E ts \in SeqsUpTo(Traks, MaxTraks), xs \in SeqsUpTo(Trexes, MaxTrexes) :
       /\ written = [kind |-> "init", traks |-> ts, trexes |-> xs]
       /\ data = InitSegmentBytes(written)
  /\ initData = <<>>
  /\ op = "none"
  /\ arg = <<>>
  /\ ret = <<>>
  /\ calls = 0

ParseInitSegment ==
  /\ op' = "parseInitSegment"
  /\ arg' = <<>>
  /\ ret' = parseInitSegment(data)
  /\ UNCHANGED <<data, written, initData, calls>>

\* findBox(initSegment, ['moov', 'trak']) as a caller sees it
FindTraks ==
  /\ op' = "findBox"
  /\ arg' = [input |-> Span(Raw(data)), path |-> <<moov, trak>>]
  /\ ret' = Spans(findBox(Raw(data), <<moov, trak>>))
  /\ UNCHANGED <<data, written, initData, calls>>

InitSegmentNext == ParseInitSegment \/ FindTraks

SpecInit == InitSegmentInit /\ [][InitSegmentNext]_vars

\* the traks that declare an audio or video track: all of tkhd, mdhd and hdlr
\* present and the handler soun or vide
Declared ==
  {k \in 1..Len(written.traks) :
     /\ written.traks[k].missing \in {"none", "stsd"}
     /\ written.traks[k].handler \in {soun, vide}}

\* the last trak that declares track id, and the last trex for it (0: none)
LastTrak(id) ==
  CHOOSE k \in Declared :
    /\ written.traks[k].id = id
    /\ \A n \in Declared : written.traks[n].id = id => n <= k
TrexesOf(id) == {k \in 1..Len(written.trexes) : written.trexes[k].id = id}
LastTrex(id) == CHOOSE k \in TrexesOf(id) : \A n \in TrexesOf(id) : n <= k

\* C20: the table of parseInitSegment has an entry for exactly the track ids
\* (read from the tkhd at the offset of its version) of the traks with handler
\* soun or vide, with the timescale read from the mdhd at the offset of its
\* version and the kind of the handler, and with the default duration of the
\* trex of that track id when there is one
C20_TrackTable ==
  op = "parseInitSegment" =>
    /\ DOMAIN ret.table = {written.traks[k].id : k \in Declared}
    /\ \A id \in DOMAIN ret.table :
         /\ ret.table[id].timescale = written.traks[LastTrak(id)].timescale
         /\ ret.table[id].type
              = (IF written.traks[LastTrak(id)].handler = soun THEN "audio" ELSE "video")
         /\ IF TrexesOf(id) = {} THEN ret.table[id].default = NoDefault
            ELSE ret.table[id].default
                   = [duration |-> written.trexes[LastTrex(id)].duration,
                      flags |-> written.trexes[LastTrex(id)].flags]

\* audio track 2 at 48000 and video track 1 at 90000, in tkhd and mdhd boxes of
\* both versions, with a trex of duration 1024 for track 1
C20_Witness ==
  /\ op = "parseInitSegment"
  /\ written.traks = <<Trak(2, 0, 48000, 1, soun, "none"), Trak(1, 1, 90000, 1, vide, "none")>>
  /\ written.trexes = <<Trex(1, 1024)>>
  /\ ret.table[1].timescale = 90000
  /\ ret.table[2].timescale = 48000
  /\ ret.table[1].default.duration = 1024

\* the entry of a stream kind in the result
KindEntry(result, k) == IF k = "audio" THEN result.audio ELSE result.video

\* the two views of the result agree on stream kind k
ViewsAgreeOn(result, k) ==
  KindEntry(result, k) # Null =>
    /\ KindEntry(result, k).id \in DOMAIN result.table
    /\ result.table[KindEntry(result, k).id].type = k
    /\ result.table[KindEntry(result, k).id].timescale = KindEntry(result, k).timescale

\* C21: in the result of parseInitSegment the entry of each stream kind and
\* the table entry of its track id agree: the table has that id, with the
\* type of the kind and with the same timescale, whatever the traks are
C21_ViewsAgree ==
  op = "parseInitSegment" => \A k \in {"audio", "video"} : ViewsAgreeOn(ret, k)

\* no track id is declared by traks of both kinds
OneKindPerId ==
  \A m, n \in Declared :
    written.traks[m].id = written.traks[n].id
      => written.traks[m].handler = written.traks[n].handler

\* the views agree when no track id is declared by traks of both kinds, also
\* with several traks of one kind
C21_ViewsAgreeOneKindPerId ==
  (op = "parseInitSegment" /\ OneKindPerId)
    => \A k \in {"audio", "video"} : ViewsAgreeOn(ret, k)

\* two video traks of different ids, the second one taking the video entry
C21_OneKindWitness ==
  /\ op = "parseInitSegment"
  /\ written.traks = <<Trak(1, 0, 90000, 0, vide, "none"), Trak(4, 1, 30000, 0, vide, "none")>>
  /\ ret.video.id = 4
  /\ ret.table[4].timescale = 30000
  /\ ret.table[1].timescale = 90000

-----------------------------------------------------------------------------
(* Fragment duration: getDuration over the tfhd flags, the trex defaults and *)
(* the sidx of a fragment                                                    *)

\* a track fragment of a tfhd and truns: bits are the tf_flags of the tfhd
\* (1 base data offset, 2 sample description index, 8 default sample duration,
\* 16 default sample size, 32 default sample flags), duration the default
\* sample duration it carries when bit 8 is set; id 0 stands for no tfhd
HeadedTraf(id, bits, duration, runs) ==
  [id |-> id, bits |-> bits, duration |-> duration, runs |-> runs]

\* the tfhd as ISO/IEC 14496-12 lays it out: every field the flags announce
HeadedTfhdBytes(t) ==
  IF t.id = 0 THEN <<>>
  ELSE Box(tfhd, <<0, 0, 0, t.bits>> \o U32(t.id)
                 \o (IF HasBit(t.bits, 1) THEN U32(0) \o U32(7101) ELSE <<>>)
                 \o (IF HasBit(t.bits, 2) THEN U32(1) ELSE <<>>)
                 \o (IF HasBit(t.bits, 8) THEN U32(t.duration) ELSE <<>>)
                 \o (IF HasBit(t.bits, 16) THEN U32(9) ELSE <<>>)
                 \o (IF HasBit(t.bits, 32) THEN U32(3) ELSE <<>>))

HeadedTrafBytes(t) == Box(traf, HeadedTfhdBytes(t) \o RunsBytes(t.runs, 1))

RECURSIVE HeadedTrafsBytes(_)
HeadedTrafsBytes(ts) ==
  IF ts = <<>> THEN <<>> ELSE HeadedTrafBytes(Head(ts)) \o HeadedTrafsBytes(Tail(ts))

\* an optional sidx, the moof and an empty mdat
IndexedFragmentBytes(w) ==
  (IF w.sidx = Null THEN <<>> ELSE Box(sidx, SidxPayload(w.sidx)))
  \o Box(moof, HeadedTrafsBytes(w.trafs)) \o Box(mdat, <<>>)

MaxHeadedTrafs == 2

\* video track 1 under every combination of the tfhd flags; audio track 2; a
\* track that is not in the table; a traf without tfhd; trafs whose runs
\* carry no duration at all
HeadedTrafs ==
  {HeadedTraf(1, b, 1500, <<Run(1, 0, 2)>>) : b \in {x \in 0..63 : ~HasBit(x, 4)}}
  \cup {HeadedTraf(2, b, 1500, <<Run(0, 0, 2), Run(1, 0, 1)>>) : b \in {0, 8, 10}}
  \cup {HeadedTraf(3, 8, 1500, <<Run(1, 0, 2)>>), HeadedTraf(0, 0, 0, <<Run(1, 0, 2)>>),
        HeadedTraf(1, 0, 0, <<Run(2, 0, 2)>>), HeadedTraf(2, 0, 0, <<Run(0, 0, 1)>>)}
LaterHeadedTrafs ==
  {HeadedTraf(1, 8, 1500, <<Run(1, 0, 2)>>), HeadedTraf(2, 0, 0, <<Run(3, 0, 2)>>),
   HeadedTraf(1, 0, 0, <<Run(2, 0, 2)>>)}

\* no sidx; flat references in a box of either version; a hierarchical one
Indexes ==
  {Null,
   [version |-> 0, timescale |-> 90000,
    refs |-> <<[type |-> 0, size |-> 1000, duration |-> 45000],
               [type |-> 0, size |-> 2000, duration |-> 45000]>>],
   [version |-> 1, timescale |-> 1, refs |-> <<[type |-> 0, size |-> 1000, duration |-> 3]>>],
   [version |-> 0, timescale |-> 1, refs |-> <<[type |-> 1, size |-> 1000, duration |-> 3]>>]}

\* the track tables: video track 1 without trex, or with a trex of some
\* default sample duration and default sample flags; audio track 2
HeadedInitDatas ==
  {[id \in {1, 2} |->
      IF id = 1 THEN [timescale |-> 1000, type |-> "video", default |-> d]
      ELSE [timescale |-> 8000, type |-> "audio", default |-> NoDefault]] :
     d \in {NoDefault, [duration |-> 1024, flags |-> 0], [duration |-> 1024, flags |-> 8],
            [duration |-> 1024, flags |-> 2], [duration |-> 0, flags |-> 65]}}

DurationInit ==
  /\ \E first \in HeadedTrafs, later \in SeqsUpTo(LaterHeadedTrafs, MaxHeadedTrafs - 1),
        index \in Indexes :
       /\ written = [kind |-> "indexed", sidx |-> index, trafs |-> <<first>> \o later]
       /\ data = IndexedFragmentBytes(written)
  /\ initData \in HeadedInitDatas
  /\ op = "none"
  /\ arg = <<>>
  /\ ret = <<>>
  /\ calls = 0

\* parseTfhd(tfhd) on the tfhd of traf n of the fragment
ParseTfhd ==
  /\ \E n \in 1..Len(written.trafs) :
       /\ written.trafs[n].id # 0
       /\ arg' = [traf |-> n]
       /\ ret' = parseTfhd(findBox(findBox(Raw(data), <<moof, traf>>)[n], <<tfhd>>)[1])
  /\ op' = "parseTfhd"
  /\ UNCHANGED <<data, written, initData, calls>>

DurationNext == GetDuration \/ ParseTfhd

SpecDuration == DurationInit /\ [][DurationNext]_vars

\* the sample duration that holds for traf t of a track with default d: the
\* default sample duration of its tfhd when the tfhd announces one, else the
\* one of the trex, 0 when there is neither
WrittenSampleDuration(t, d) ==
  IF HasBit(t.bits, 8) THEN t.duration
  ELSE IF d = NoDefault THEN 0 ELSE d.duration

\* the ticks of run n of traf t: its samples at the sample duration that
\* holds, or the sum of their own durations when none holds
WrittenRunTicks(t, d, n) ==
  IF WrittenSampleDuration(t, d) # 0 THEN WrittenSampleDuration(t, d) * t.runs[n].count
  ELSE IF HasBit(t.runs[n].bits, 1) THEN WrittenDurations(n, t.runs[n].count)
  ELSE 0

RECURSIVE WrittenTrafTicks(_, _, _)
WrittenTrafTicks(t, d, n) ==
  IF n > Len(t.runs) THEN 0
  ELSE WrittenRunTicks(t, d, n) + WrittenTrafTicks(t, d, n + 1)

\* the ticks of the trafs from k on that belong to a track of the kind
RECURSIVE WrittenKindTicks(_, _)
WrittenKindTicks(kind, k) ==
  IF k > Len(written.trafs) THEN 0
  ELSE (IF /\ written.trafs[k].id \in DOMAIN initData
           /\ initData[written.trafs[k].id].type = kind
        THEN WrittenTrafTicks(written.trafs[k], initData[written.trafs[k].id].default, 1)
        ELSE 0)
       + WrittenKindTicks(kind, k + 1)

RECURSIVE SumOfReferences(_)
SumOfReferences(refs) ==
  IF refs = <<>> THEN 0 ELSE Head(refs).duration + SumOfReferences(Tail(refs))

FlatIndex ==
  /\ written.sidx # Null
  /\ \A k \in 1..Len(written.sidx.refs) : written.sidx.refs[k].type = 0

\* video seconds if any, else audio seconds if any, else the seconds of the
\* references of a flat sidx, else 0
WrittenDuration ==
  IF WrittenKindTicks("video", 1) # 0
  THEN Frac(WrittenKindTicks("video", 1), Timescale(initData[1]))
  ELSE IF WrittenKindTicks("audio", 1) # 0
  THEN Frac(WrittenKindTicks("audio", 1), Timescale(initData[2]))
  ELSE IF FlatIndex
  THEN Frac(SumOfReferences(written.sidx.refs), written.sidx.timescale)
  ELSE Zero

\* C22: getDuration returns the video seconds accumulated over the trafs of
\* known tracks when they are not zero, else the audio seconds, and only when
\* both are zero the sum of the durations of the flat references of the sidx
C22_VideoElseAudioElseIndex ==
  op = "getDuration" => (ret.kind = "ok" /\ FracEq(ret.value, WrittenDuration))

\* every traf has a tfhd, no tfhd of a known track announces a base data
\* offset, no trex has bit 2 or 8 in its default sample flags, and the sidx,
\* if any, is of version 0
PlainlyHeaded ==
  /\ \A k \in 1..Len(written.trafs) :
       /\ written.trafs[k].id # 0
       /\ written.trafs[k].id \in DOMAIN initData => ~HasBit(written.trafs[k].bits, 1)
  /\ \A id \in DOMAIN initData :
       initData[id].default # NoDefault =>
         (~HasBit(initData[id].default.flags, 2) /\ ~HasBit(initData[id].default.flags, 8))
  /\ written.sidx # Null => written.sidx.version = 0

\* the same on the fragments that are plainly headed
C22_VideoElseAudioElseIndexPlain ==
  (op = "getDuration" /\ PlainlyHeaded)
    => (ret.kind = "ok" /\ FracEq(ret.value, WrittenDuration))

\* audio only, and the fallback to two flat references of 45000 / 90000 s
C22_AudioWitness ==
  /\ op = "getDuration"
  /\ PlainlyHeaded
  /\ WrittenKindTicks("video", 1) = 0
  /\ WrittenKindTicks("audio", 1) # 0
  /\ ret.kind = "ok"
  /\ FracEq(ret.value, Frac(WrittenKindTicks("audio", 1), 8000))

C22_IndexWitness ==
  /\ op = "getDuration"
  /\ PlainlyHeaded
  /\ WrittenKindTicks("video", 1) = 0
  /\ WrittenKindTicks("audio", 1) = 0
  /\ FlatIndex
  /\ ret.kind = "ok"
  /\ FracEq(ret.value, Frac(1, 1))

\* the tfhd box of traf n of the fragment, and the track it names
TfhdOfTraf(n) == findBox(findBox(Raw(data), <<moof, traf>>)[n], <<tfhd>>)[1]
TrackOfTraf(n) == Track(initData, written.trafs[n].id)

\* the sample duration getDuration takes for the tfhd of traf n
ReadSampleDuration(n) ==
  sampleDurationOf(TfhdOfTraf(n), tfhdFlagsOf(TfhdOfTraf(n), TrackOfTraf(n).default),
                   TrackOfTraf(n).default)

\* C23: for every tfhd of a known track whose flags have the
\* default-sample-duration-present bit, under every combination of the other
\* flag bits, the default sample duration getDuration reads from the box is
\* the defaultSampleDuration that parseTfhd decodes from it
C23_SameDefaultDuration ==
  (/\ op = "parseTfhd"
   /\ TrackOfTraf(arg.traf) # NoTrack
   /\ HasBit(written.trafs[arg.traf].bits, 8))
    => (/\ ret.kind = "ok"
        /\ ReadSampleDuration(arg.traf) = ret.value.defaultSampleDuration)

\* the same for the boxes without base data offset of tracks whose trex does
\* not add the sample-description-index bit
C23_SameDefaultDurationNoBase ==
  (/\ op = "parseTfhd"
   /\ TrackOfTraf(arg.traf) # NoTrack
   /\ HasBit(written.trafs[arg.traf].bits, 8)
   /\ ~HasBit(written.trafs[arg.traf].bits, 1)
   /\ (TrackOfTraf(arg.traf).default = NoDefault
       \/ ~HasBit(TrackOfTraf(arg.traf).default.flags, 2)))
    => (/\ ret.kind = "ok"
        /\ ReadSampleDuration(arg.traf) = ret.value.defaultSampleDuration)

\* a tfhd with sample description index, default duration, size and flags
C23_NoBaseWitness ==
  /\ op = "parseTfhd"
  /\ written.trafs[arg.traf] = HeadedTraf(1, 58, 1500, <<Run(1, 0, 2)>>)
  /\ ret.kind = "ok"
  /\ ret.value.defaultSampleDuration = 1500
  /\ ReadSampleDuration(arg.traf) = 1500

\* C26: for a tfhd of a known track whose own flags do not have the
\* default-sample-duration-present bit, getDuration reads no duration out of
\* the box: the sample duration is the default duration of the trex of the
\* track, or none, whatever the default sample flags of the trex are
C26_ReadsOnlyAnnouncedDuration ==
  (/\ op = "parseTfhd"
   /\ TrackOfTraf(arg.traf) # NoTrack
   /\ ~HasBit(written.trafs[arg.traf].bits, 8))
    => ReadSampleDuration(arg.traf)
         = (IF TrackOfTraf(arg.traf).default = NoDefault THEN Undefined
            ELSE TrackOfTraf(arg.traf).default.duration)

\* the same for the tracks whose trex default sample flags do not have bit 8
C26_ReadsOnlyAnnouncedDurationPlainTrex ==
  (/\ op = "parseTfhd"
   /\ TrackOfTraf(arg.traf) # NoTrack
   /\ ~HasBit(written.trafs[arg.traf].bits, 8)
   /\ (TrackOfTraf(arg.traf).default = NoDefault
       \/ ~HasBit(TrackOfTraf(arg.traf).default.flags, 8)))
    => ReadSampleDuration(arg.traf)
         = (IF TrackOfTraf(arg.traf).default = NoDefault THEN Undefined
            ELSE TrackOfTraf(arg.traf).default.duration)

\* a tfhd without default duration under a trex of duration 1024 and flags 2
C26_PlainTrexWitness ==
  /\ op = "parseTfhd"
  /\ ~HasBit(written.trafs[arg.traf].bits, 8)
  /\ TrackOfTraf(arg.traf) # NoTrack
  /\ TrackOfTraf(arg.traf).default = [duration |-> 1024, flags |-> 2]
  /\ ReadSampleDuration(arg.traf) = 1024

-----------------------------------------------------------------------------
(* SEI messages: parseSei *)

USER_DATA_REGISTERED_ITU_T_T35 == 4
\* 128: the top bit of an octet
RBSP_TRAILING_BITS == Radix \div 2

\* a number that is not a number
NaN == Undefined

\* while (bytes[i] === 0xff) { value += 255; i++ }  value += bytes[i++]
RECURSIVE seiValue(_, _, _)
seiValue(bytes, i, value) ==
  IF i < Len(bytes) /\ bytes[i + 1] = Radix - 1
  THEN seiValue(bytes, i + 1, IF value = NaN THEN NaN ELSE value + (Radix - 1))
  ELSE [value |-> IF i < Len(bytes) /\ value # NaN THEN value + bytes[i + 1] ELSE NaN,
        next |-> i + 1]

RECURSIVE seiFrom(_, _, _, _)
\* the end of the loop body without the reset of payloadType and payloadSize
seiSizedCarried(bytes, result, type, size) ==
  IF type.value = USER_DATA_REGISTERED_ITU_T_T35
  THEN [payloadType |-> type.value, payloadSize |-> size.value,
        payload |-> Bytes(subarray(bytes, size.next,
                                   IF size.value = NaN THEN 0 ELSE size.next + size.value))]
  ELSE IF type.value = NaN \/ size.value = NaN THEN result
  ELSE seiFrom(bytes, size.next + size.value, type.value, size.value)

\* the end of the loop body: the caption message is saved, any other skipped
seiSized(bytes, result, type, size) ==
  IF type.value = USER_DATA_REGISTERED_ITU_T_T35
  THEN [payloadType |-> type.value, payloadSize |-> size.value,
        payload |-> Bytes(subarray(bytes, size.next,
                                   IF size.value = NaN THEN 0 ELSE size.next + size.value))]
  ELSE IF type.value = NaN \/ size.value = NaN THEN result
  ELSE seiFrom(bytes, size.next + size.value, 0, 0)

seiTyped(bytes, result, type, payloadSize) ==
  seiSized(bytes, result, type, seiValue(bytes, type.next, payloadSize))

\* the loop over the messages from byte i on
seiFrom(bytes, i, payloadType, payloadSize) ==
  IF i >= Len(bytes) \/ bytes[i + 1] = RBSP_TRAILING_BITS
  THEN [payloadType |-> -1, payloadSize |-> 0, payload |-> Null]
  ELSE seiTyped(bytes, [payloadType |-> -1, payloadSize |-> 0, payload |-> Null],
                seiValue(bytes, i, payloadType), payloadSize)

parseSei(bytes) == seiFrom(bytes, 0, 0, 0)

(* What an encoder writes: sei_message()s, each a payload type and a payload *)
(* size coded as octets of all ones followed by one last octet, and the      *)
(* payload; then the RBSP trailing bits.                                      *)
RECURSIVE SeiValueBytes(_)
SeiValueBytes(n) ==
  IF n >= Radix - 1 THEN <<Radix - 1>> \o SeiValueBytes(n - (Radix - 1)) ELSE <<n>>

SeiMessageBytes(m) == SeiValueBytes(m.type) \o SeiValueBytes(Len(m.payload)) \o m.payload

RECURSIVE SeiMessagesBytes(_)
SeiMessagesBytes(ms) ==
  IF ms = <<>> THEN <<>> ELSE SeiMessageBytes(Head(ms)) \o SeiMessagesBytes(Tail(ms))

MaxSeiMessages == 3

\* caption messages (one with a payload octet equal to the trailing bits, one
\* empty), and other messages: with the trailing bits and a 4 in the payload,
\* without payload, with a type of two and of three octets, and with a size
\* of two octets
SeiMessages ==
  {[type |-> 4, payload |-> <<7, RBSP_TRAILING_BITS>>],
   [type |-> 4, payload |-> <<>>],
   [type |-> 5, payload |-> <<RBSP_TRAILING_BITS, 4>>],
   [type |-> 1, payload |-> <<>>],
   [type |-> Radix - 1 + 4, payload |-> <<9>>],
   [type |-> 2 * (Radix - 1), payload |-> <<1>>],
   [type |-> 6, payload |-> [k \in 1..Radix |-> 4]]}

SeiInit ==
  /\ \E ms \in SeqsUpTo(SeiMessages, MaxSeiMessages), trailing \in BOOLEAN :
       /\ written = [kind |-> "sei", messages |-> ms, trailing |-> trailing]
       /\ data = SeiMessagesBytes(ms) \o (IF trailing THEN <<RBSP_TRAILING_BITS>> ELSE <<>>)
  /\ initData = <<>>
  /\ op = "none"
  /\ arg = <<>>
  /\ ret = <<>>
  /\ calls = 0

ParseSei ==
  /\ op' = "parseSei"
  /\ arg' = <<>>
  /\ ret' = parseSei(data)
  /\ UNCHANGED <<data, written, initData, calls>>

SeiNext == ParseSei

SpecSei == SeiInit /\ [][SeiNext]_vars

\* the caption messages written
Captions == {k \in 1..Len(written.messages) : written.messages[k].type = 4}
FirstCaption == CHOOSE k \in Captions : \A n \in Captions : k <= n

\* C24: parseSei returns the first message of type 4 of the RBSP, with the
\* size and the payload octets written for it, whatever the types and sizes
\* (of one or more octets) of the messages skipped before it; and payload
\* null, payloadType -1 when the RBSP ends, with or without trailing bits,
\* before any message of type 4
C24_FirstCaptionMessage ==
  op = "parseSei" =>
    ret = IF Captions = {}
          THEN [payloadType |-> -1, payloadSize |-> 0, payload |-> Null]
          ELSE [payloadType |-> 4,
                payloadSize |-> Len(written.messages[FirstCaption].payload),
                payload |-> Bytes(written.messages[FirstCaption].payload)]

\* a caption message behind a message with a type of two octets and one with
\* a size of two octets
C24_Witness ==
  /\ op = "parseSei"
  /\ Len(written.messages) = 3
  /\ written.messages[1].type = Radix - 1 + 4
  /\ Len(written.messages[2].payload) = Radix
  /\ written.messages[3].type = 4
  /\ ret.payloadType = 4
  /\ ret.payloadSize = 2
  /\ ret.payload = Bytes(<<7, RBSP_TRAILING_BITS>>)

\* no caption message before the trailing bits
C24_NoneWitness ==
  /\ op = "parseSei"
  /\ Len(written.messages) = 2
  /\ Captions = {}
  /\ written.trailing
  /\ ret.payload = Null
  /\ ret.payloadType = -1

-----------------------------------------------------------------------------
(* findBox step by step: one action per turn of the sibling loop, the calls  *)
(* of findBox on the path kept as frames in arg, the results pushed so far   *)
(* in ret                                                                    *)

\* endbox = i + size without the case of a size of 0 or 1
endboxOfSize(size, i, end) == i + size

\* const endbox = size > 1 ? i + size : end
endboxOf(size, i, end) == IF size > 1 THEN i + size ELSE end

\* the frame of the call that is running, and what its loop reads at i
Top == arg.frames[Len(arg.frames)]
TopType == bin2str(subarray(data, Top.i + 4, Top.i + 8))
TopEndbox == endboxOf(readUint32(Raw(data), Top.i), Top.i, Top.end)

MaxSteppedBoxes == 2
SteppedPaths == {<<>>, <<moof>>, <<traf>>, <<moof, traf>>, <<moof, moof, traf>>}

SteppedInit ==
  /\ \E n \in 1..MaxSteppedBoxes : \E f \in Forests(n) :
       \E p \in {NoPatch} \cup
                {[at |-> h, size |-> s] : h \in Headers(f, 0), s \in PatchSizes} :
         /\ written = [kind |-> "boxes", boxes |-> f, patch |-> p]
         /\ data = IF p.at < 0 THEN ForestBytes(f)
                   ELSE writeUint32(Raw(ForestBytes(f)), p.at, p.size)
  /\ initData = <<>>
  /\ op = "none"
  /\ arg = <<>>
  /\ ret = <<>>
  /\ calls = 0

\* findBox(data, path) is called: an empty path returns at once
FindBoxEnter ==
  /\ op = "none"
  /\ \E path \in SteppedPaths :
       /\ arg' = [path |-> path,
                  frames |-> IF Len(path) = 0 THEN <<>>
                             ELSE <<[i |-> 0, end |-> Len(data), path |-> path,
                                     endbox |-> 0]>>]
       /\ op' = IF Len(path) = 0 THEN "returned" ELSE "searching"
  /\ ret' = <<>>
  /\ UNCHANGED <<data, written, initData, calls>>

\* i < end fails: the call returns, and its caller goes on with i = endbox
FindBoxLeave ==
  /\ op = "searching"
  /\ ~(Top.i < Top.end)
  /\ IF Len(arg.frames) = 1
     THEN /\ op' = "returned"
          /\ arg' = [arg EXCEPT !.frames = <<>>]
     ELSE /\ op' = "searching"
          /\ arg' = [arg EXCEPT !.frames =
                       [k \in 1..(Len(arg.frames) - 1) |->
                          IF k = Len(arg.frames) - 1
                          THEN [arg.frames[k] EXCEPT !.i = arg.frames[k].endbox]
                          ELSE arg.frames[k]]]
  /\ UNCHANGED <<data, written, initData, ret, calls>>

\* the box at i ends the path: results.push, i = endbox
FindBoxPush ==
  /\ op = "searching"
  /\ Top.i < Top.end
  /\ TopType = Top.path[1]
  /\ Len(Top.path) = 1
  /\ ret' = Append(ret, [start |-> Top.i + 8, end |-> TopEndbox])
  /\ arg' = [arg EXCEPT !.frames[Len(arg.frames)].i = TopEndbox]
  /\ UNCHANGED <<data, written, initData, op, calls>>

\* the box at i starts the path: findBox on its payload and the rest of the path
FindBoxDescend ==
  /\ op = "searching"
  /\ Top.i < Top.end
  /\ TopType = Top.path[1]
  /\ Len(Top.path) > 1
  /\ arg' = [arg EXCEPT !.frames =
               Append([arg.frames EXCEPT ![Len(arg.frames)].endbox = TopEndbox],
                      [i |-> Top.i + 8, end |-> TopEndbox, path |-> Tail(Top.path),
                       endbox |-> 0])]
  /\ UNCHANGED <<data, written, initData, op, ret, calls>>

\* the box at i is of another type: i = endbox
FindBoxSkip ==
  /\ op = "searching"
  /\ Top.i < Top.end
  /\ TopType # Top.path[1]
  /\ arg' = [arg EXCEPT !.frames[Len(arg.frames)].i = TopEndbox]
  /\ UNCHANGED <<data, written, initData, op, ret, calls>>

SteppedNext == FindBoxEnter \/ FindBoxLeave \/ FindBoxPush \/ FindBoxDescend \/ FindBoxSkip

\* a call that was made runs on: the code has no point where it waits
SpecStepped == SteppedInit /\ [][SteppedNext]_vars /\ WF_vars(SteppedNext)

\* the steps push what findBox returns
SteppedAgrees == op = "returned" => ret = Spans(findBox(Raw(data), arg.path))

\* the cursor of the running call after a step is beyond where it was, and
\* so is the cursor of a caller when its call returns
CursorAdvances ==
  (op = "searching" /\ op' = "searching" /\ Len(arg'.frames) <= Len(arg.frames))
    => arg'.frames[Len(arg'.frames)].i > arg.frames[Len(arg'.frames)].i

\* C25: findBox returns on every buffer and every path, whatever the size
\* fields hold (0, 1, less than a header, beyond the buffer): every turn of a
\* sibling loop moves its cursor forward, and the calls are never nested
\* deeper than the path is long
C25_FindBoxTerminates ==
  /\ [](op = "searching" => Len(arg.frames) <= Len(arg.path))
  /\ [][CursorAdvances]_vars
  /\ <>(op = "returned")

\* a search two calls deep has returned on a buffer with a size field of 0 or
\* 1, of less than a header or beyond the buffer
C25_Witness ==
  /\ op = "returned"
  /\ Len(arg.path) >= 2
  /\ written.patch.at >= 0
  /\ Len(ret) >= 1

-----------------------------------------------------------------------------
(* LatencyController. data is the controller (media: an element is attached, *)
(* listening: its timeupdate listener is on the element), written the player *)
(* around it: the configuration, the clock Date.now() and the media element. *)
(* Times are counted in half seconds. media.playbackRate, which only the     *)
(* rate computation itself reads back, is left out.                          *)

\* const liveSyncOnStallIncrease = 1.0: one second, in half seconds
liveSyncOnStallIncrease == 2

\* a || b on numbers
OrElse(a, b) == IF a # 0 /\ a # Undefined THEN a ELSE b

forwardBufferLength(c, w) ==
  IF ~c.media \/ c.levelDetails = Null THEN 0
  ELSE (IF w.media.bufferedEnd >= 0 THEN w.media.bufferedEnd ELSE c.levelDetails.edge)
       - c.currentTime

\* targetLatency before the stall increase: the hold-back of the level, or the
\* live-sync target of the configuration
targetBase(c, w) ==
  IF \/ OrElse(w.userConfig.liveSyncDuration, 0) # 0
     \/ OrElse(w.userConfig.liveSyncDurationCount, 0) # 0
     \/ (IF w.config.lowLatencyMode
         THEN OrElse(c.levelDetails.partHoldBack, c.levelDetails.holdBack)
         ELSE c.levelDetails.holdBack) = 0
  THEN IF w.config.liveSyncDuration # Undefined THEN w.config.liveSyncDuration
       ELSE w.config.liveSyncDurationCount * c.levelDetails.targetduration
  ELSE IF w.config.lowLatencyMode
       THEN OrElse(c.levelDetails.partHoldBack, c.levelDetails.holdBack)
       ELSE c.levelDetails.holdBack

\* "try to recover": the controller after the block of the getter
stallRecovered(c, w, maxStallCount) ==
  IF /\ w.config.lowLatencyMode
     /\ c.stallCount > 0
     /\ w.now - c.lastStallTime > w.config.recoverFromStallPeriod
     /\ forwardBufferLength(c, w) > w.config.minSmoothPlaybackBuffer
  THEN [c EXCEPT !.lastStallTime = w.now,
                 !.stallCount = (IF c.stallCount > maxStallCount THEN maxStallCount
                                 ELSE c.stallCount) - 1]
  ELSE c

Min(a, b) == IF a < b THEN a ELSE b
Max(a, b) == IF a > b THEN a ELSE b

\* the return of the getter on the controller after the recovery
targetLatencyAfter(c, w) ==
  [c |-> c,
   value |-> Ok(targetBase(c, w)
                + Min(c.stallCount * liveSyncOnStallIncrease, c.levelDetails.targetduration))]

\* get targetLatency(): the controller it leaves and the value it returns
targetLatency(c, w) ==
  IF c.levelDetails = Null THEN [c |-> c, value |-> Null]
  ELSE targetLatencyAfter(stallRecovered(c, w, c.levelDetails.targetduration
                                                 \div liveSyncOnStallIncrease), w)

maxLatency(c, w) ==
  IF w.config.liveMaxLatencyDuration # Undefined THEN w.config.liveMaxLatencyDuration
  ELSE IF c.levelDetails # Null
  THEN w.config.liveMaxLatencyDurationCount * c.levelDetails.targetduration
  ELSE 0

edgeStalled(c, w) ==
  IF c.levelDetails = Null THEN 0
  ELSE Max(c.levelDetails.age
           - (IF w.config.lowLatencyMode
              THEN OrElse(c.levelDetails.partTarget, c.levelDetails.targetduration)
              ELSE c.levelDetails.targetduration) * 3, 0)

\* get liveSyncPosition() where timeupdate reads it: stallCount is 0 there, so
\* its read of targetLatency changes nothing and returns target
liveSyncPosition(c, w, target) ==
  Min(Max(c.levelDetails.edge - c.levelDetails.totalduration,
          c.levelDetails.edge + c.levelDetails.age - target - edgeStalled(c, w)),
      c.levelDetails.edge
        - (IF w.config.lowLatencyMode
           THEN OrElse(c.levelDetails.partTarget, c.levelDetails.targetduration)
           ELSE c.levelDetails.targetduration))

\* the end of timeupdate: the seek to the live sync position
timeupdateSeek(c, w, latency, target) ==
  [c |-> c,
   media |->
     IF /\ c.levelDetails.live
        /\ c.stallCount = 0
        /\ forwardBufferLength(c, w) > w.config.minSmoothPlaybackBuffer
        /\ latency - target > Min(maxLatency(c, w), target + c.levelDetails.targetduration)
        /\ liveSyncPosition(c, w, target) # 0
     THEN [w.media EXCEPT !.currentTime = liveSyncPosition(c, w, target)]
     ELSE w.media]

timeupdateTargeted(w, latency, got) == timeupdateSeek(got.c, w, latency, got.value.value)

timeupdateTimed(c, w) ==
  IF ~w.config.lowLatencyMode \/ w.config.maxLiveSyncPlaybackRate = 1
  THEN [c |-> c, media |-> w.media]
  ELSE timeupdateTargeted(w, c.latency, targetLatency(c, w))

\* timeupdate(): the controller and the media element it leaves
timeupdate(c, w) ==
  IF ~c.media \/ c.levelDetails = Null THEN [c |-> c, media |-> w.media]
  ELSE timeupdateTimed([c EXCEPT !.currentTime = w.media.currentTime,
                                 !.latency = c.levelDetails.edge + c.levelDetails.age
                                             - w.media.currentTime], w)

\* LevelDetails as LEVEL_UPDATED delivers them: the playlist edge at 10 s, 6 s
\* of playlist, no age, no part target
Level(targetduration, holdBack, partHoldBack, advanced, live) ==
  [targetduration |-> targetduration, holdBack |-> holdBack,
   partHoldBack |-> partHoldBack, advanced |-> advanced, live |-> live,
   edge |-> 20, age |-> 0, totalduration |-> 12, partTarget |-> 0]

\* target durations of half a second, one second and two seconds
Levels ==
  {Level(1, 3, 1, TRUE, TRUE), Level(2, 0, 0, TRUE, TRUE), Level(4, 12, 0, TRUE, TRUE),
   Level(4, 12, 4, FALSE, TRUE), Level(4, 12, 0, TRUE, FALSE)}

\* the configurations: the live-sync target left to the level or set by the
\* user to 3 s; stalls forgotten after half a second with more than half a
\* second buffered
Players ==
  {[kind |-> "player",
    config |-> [lowLatencyMode |-> low, liveSyncDuration |-> sync,
                liveSyncDurationCount |-> 3, liveMaxLatencyDuration |-> Undefined,
                liveMaxLatencyDurationCount |-> 10, recoverFromStallPeriod |-> 1,
                minSmoothPlaybackBuffer |-> 1, maxLiveSyncPlaybackRate |-> rate],
    userConfig |-> [liveSyncDuration |-> sync, liveSyncDurationCount |-> Undefined],
    now |-> 5,
    media |-> [currentTime |-> 0, bufferedEnd |-> buffered]] :
     low \in BOOLEAN, sync \in {Undefined, 6}, rate \in {1, 2}, buffered \in {-1, 6}}

MaxStalls == 2
MaxTicks == 2

LatencyInit ==
  /\ written \in Players
  /\ data = [media |-> FALSE, listening |-> FALSE, levelDetails |-> Null,
             currentTime |-> 0, stallCount |-> 0, latency |-> Null, lastStallTime |-> 0]
  /\ initData = <<>>
  /\ op = "none"
  /\ arg = <<>>
  /\ ret = <<>>
  /\ calls = 0

OnMediaAttached ==
  /\ data' = [data EXCEPT !.media = TRUE, !.listening = TRUE]
  /\ op' = "onMediaAttached"
  /\ ret' = <<>>
  /\ UNCHANGED <<written, initData, arg, calls>>

OnMediaDetaching ==
  /\ data' = IF data.media THEN [data EXCEPT !.media = FALSE, !.listening = FALSE] ELSE data
  /\ op' = "onMediaDetaching"
  /\ ret' = <<>>
  /\ UNCHANGED <<written, initData, arg, calls>>

OnManifestLoading ==
  /\ data' = [data EXCEPT !.levelDetails = Null, !.latency = Null, !.stallCount = 0,
                          !.lastStallTime = 0]
  /\ op' = "onManifestLoading"
  /\ ret' = <<>>
  /\ UNCHANGED <<written, initData, arg, calls>>

\* the controller after onLevelUpdated ran timeupdate, or not
levelUpdated(details, after) ==
  IF ~details.live /\ after.c.media THEN [after EXCEPT !.c.listening = FALSE] ELSE after

OnLevelUpdated ==
  /\ \E details \in Levels :
       LET after ==
             levelUpdated(details,
                          IF details.advanced
                          THEN timeupdate([data EXCEPT !.levelDetails = details], written)
                          ELSE [c |-> [data EXCEPT !.levelDetails = details],
                                media |-> written.media])
       IN /\ data' = after.c
          /\ written' = [written EXCEPT !.media = after.media]
  /\ op' = "onLevelUpdated"
  /\ ret' = <<>>
  /\ UNCHANGED <<initData, arg, calls>>

OnError ==
  /\ data.stallCount < MaxStalls
  /\ \E details \in {"bufferStalledError", "bufferSeekOverHole"} :
       /\ data' = IF details # "bufferStalledError" THEN data
                  ELSE [data EXCEPT !.stallCount = data.stallCount + 1,
                                    !.lastStallTime = written.now]
  /\ op' = "onError"
  /\ ret' = <<>>
  /\ UNCHANGED <<written, initData, arg, calls>>

\* the element fires timeupdate while the listener is on it
Timeupdate ==
  /\ data.listening
  /\ data' = timeupdate(data, written).c
  /\ written' = [written EXCEPT !.media = timeupdate(data, written).media]
  /\ op' = "timeupdate"
  /\ ret' = <<>>
  /\ UNCHANGED <<initData, arg, calls>>

\* a read of targetLatency from outside the controller
TargetLatency ==
  /\ data' = targetLatency(data, written).c
  /\ ret' = targetLatency(data, written).value
  /\ op' = "targetLatency"
  /\ UNCHANGED <<written, initData, arg, calls>>

\* half a second passes
Tick ==
  /\ calls < MaxTicks
  /\ calls' = calls + 1
  /\ written' = [written EXCEPT !.now = written.now + 1]
  /\ op' = "tick"
  /\ ret' = <<>>
  /\ UNCHANGED <<data, initData, arg>>

LatencyNext ==
  \/ OnMediaAttached \/ OnMediaDetaching \/ OnManifestLoading \/ OnLevelUpdated
  \/ OnError \/ Timeupdate \/ TargetLatency \/ Tick

SpecLatency == LatencyInit /\ [][LatencyNext]_vars

\* C29: stallCount is never negative, and a read of targetLatency is never
\* below the hold-back or live-sync target of the level and never more than
\* targetduration above it, for target durations from half a second up
C29_StallIncreaseWithinBounds ==
  /\ data.stallCount >= 0
  /\ (op = "targetLatency" /\ ret # Null) =>
       /\ ret.value >= targetBase(data, written)
       /\ ret.value <= targetBase(data, written) + data.levelDetails.targetduration

\* the upper half: never more than targetduration above the base, and
\* stallCount never below -1
C29_NeverAboveTargetDuration ==
  /\ data.stallCount >= -1
  /\ (op = "targetLatency" /\ ret # Null) =>
       ret.value <= targetBase(data, written) + data.levelDetails.targetduration

\* after two stalls under a target duration of two seconds the target latency
\* is two seconds above the hold-back
C29_AboveWitness ==
  /\ op = "targetLatency"
  /\ ret # Null
  /\ data.stallCount = 2
  /\ data.levelDetails.targetduration = 4
  /\ ret.value = data.levelDetails.holdBack + 4

-----------------------------------------------------------------------------
(* PassThroughRemuxer: remux, remuxID3, remuxText.  data holds the id3 and the
   text track the caller passes, written the audio and video tracks, arg the
   two tracks as they were before the call, ret the events the observer was
   given, in order, and whether the call ended in a TypeError. *)

FRAG_PARSING_DATA == "FRAG_PARSING_DATA"
FRAG_PARSING_USERDATA == "FRAG_PARSING_USERDATA"
FRAG_PARSING_METADATA == "FRAG_PARSING_METADATA"
FRAG_PARSED == "FRAG_PARSED"

Triggered(event, payload) == [event |-> event, payload |-> payload]

\* x / timescale - initPTS
id3Time(x, timescale, initPTS) ==
  Frac(x.num - initPTS * x.den * timescale, x.den * timescale)

\* (x - initPTS) / inputTimeScale
textTime(x, inputTimeScale, initPTS) ==
  Frac(x.num - initPTS * x.den, x.den * inputTimeScale)

\* the body of the loop of remuxID3
id3Rescaled(sample, initPTS) ==
  [sample EXCEPT !.pts = id3Time(sample.pts, sample.timescale, initPTS),
                 !.dts = id3Time(sample.dts, sample.timescale, initPTS),
                 !.duration = IF sample.duration = Null THEN Null
                              ELSE id3Time(sample.duration, sample.timescale, 0)]

\* the loop of remuxID3 from sample index: the samples it leaves, and whether
\* it read a property of undefined
RECURSIVE id3Loop(_, _, _)
id3Loop(samples, index, initPTS) ==
  IF index > Len(samples) THEN [samples |-> samples, thrown |-> FALSE]
  ELSE IF samples[index] = UndefinedEntry THEN [samples |-> samples, thrown |-> TRUE]
  ELSE id3Loop([samples EXCEPT ![index] = id3Rescaled(samples[index], initPTS)],
               index + 1, initPTS)

\* remuxID3: the track it leaves, the events it triggers, whether it throws
id3Cleared(track, looped) ==
  IF looped.thrown
  THEN [track |-> [track EXCEPT !.samples = looped.samples], events |-> <<>>, thrown |-> TRUE]
  ELSE [track |-> [track EXCEPT !.samples = <<>>],
        events |-> <<Triggered(FRAG_PARSING_METADATA, looped.samples)>>, thrown |-> FALSE]

remuxID3(track) ==
  IF Len(track.samples) = 0 THEN [track |-> track, events |-> <<>>, thrown |-> FALSE]
  ELSE id3Cleared(track, id3Loop(track.samples, 1, track.initPTS))

\* track.samples.sort((a, b) => a.pts - b.pts): a stable sort
RECURSIVE insertedByPts(_, _)
insertedByPts(sorted, sample) ==
  IF sorted = <<>> THEN <<sample>>
  ELSE IF FracLess(sample.pts, sorted[Len(sorted)].pts)
  THEN insertedByPts(SubSeq(sorted, 1, Len(sorted) - 1), sample) \o <<sorted[Len(sorted)]>>
  ELSE sorted \o <<sample>>

RECURSIVE sortedByPts(_)
sortedByPts(samples) ==
  IF samples = <<>> THEN <<>>
  ELSE insertedByPts(sortedByPts(SubSeq(samples, 1, Len(samples) - 1)), samples[Len(samples)])

textRescaled(track, sorted) ==
  IF Len(sorted) > 0 /\ track.initPTS # Undefined
  THEN [k \in 1..Len(sorted) |->
          [sorted[k] EXCEPT !.pts = textTime(sorted[k].pts, track.timescale,
                                             track.initPTS)]]
  ELSE sorted

\* remuxText: the track it leaves and the event it triggers
remuxText(track) ==
  LET samples == textRescaled(track, sortedByPts(track.samples))
  IN [track |-> [track EXCEPT !.samples = samples],
      events |-> <<Triggered(FRAG_PARSING_USERDATA, samples)>>]

streamType(audioTrack, videoTrack) ==
  (IF audioTrack THEN "audio" ELSE "")
  \o (IF videoTrack THEN (IF audioTrack THEN ",video" ELSE "video") ELSE "")

\* remux up to the text track
remuxedText(audioTrack, videoTrack, textTrack) ==
  LET first == Triggered(FRAG_PARSING_DATA,
                         [type |-> streamType(audioTrack, videoTrack),
                          hasAudio |-> audioTrack, hasVideo |-> videoTrack,
                          nb |-> 1, dropped |-> 0])
  IN IF textTrack # Null /\ Len(textTrack.samples) > 0
     THEN [textTrack |-> remuxText(textTrack).track,
           events |-> <<first>> \o remuxText(textTrack).events]
     ELSE [textTrack |-> textTrack, events |-> <<first>>]

\* remux from the id3 track on
remuxedId3(texted, id3Track) ==
  IF id3Track # Null /\ Len(id3Track.samples) > 0
  THEN [textTrack |-> texted.textTrack, id3Track |-> remuxID3(id3Track).track,
        thrown |-> remuxID3(id3Track).thrown,
        events |-> texted.events \o remuxID3(id3Track).events
                   \o (IF remuxID3(id3Track).thrown THEN <<>>
                       ELSE <<Triggered(FRAG_PARSED, <<>>)>>)]
  ELSE [textTrack |-> texted.textTrack, id3Track |-> id3Track, thrown |-> FALSE,
        events |-> texted.events \o <<Triggered(FRAG_PARSED, <<>>)>>]

remux(audioTrack, videoTrack, id3Track, textTrack) ==
  remuxedId3(remuxedText(audioTrack, videoTrack, textTrack), id3Track)

\* an id3 sample as parseId3TrackSamples returns it: an emsg at a presentation
\* time with or without a duration
Id3Sample(time, duration) ==
  [timescale |-> 2, pts |-> Frac(time, 1), dts |-> Frac(time, 1),
   duration |-> IF duration = Undefined THEN Null ELSE Frac(duration, 1)]

\* the id3 tracks: none, one without samples, one or two samples, and lists
\* with the undefined entry parseId3TrackSamples returns for an emsg it skips
Id3Tracks ==
  {Null}
  \cup {[kind |-> "id3", initPTS |-> 1, samples |-> samples] :
          samples \in {<<>>, <<Id3Sample(4, 2)>>, <<Id3Sample(4, Undefined)>>,
                       <<Id3Sample(6, 2), Id3Sample(4, 2)>>,
                       <<UndefinedEntry>>, <<Id3Sample(4, 2), UndefinedEntry>>}}

TextSample(time, type) == [pts |-> Frac(time, 1), type |-> type]

\* the text tracks: none, one without samples, samples in and out of order,
\* with and without an initPTS
TextTracks ==
  {Null}
  \cup {[kind |-> "text", initPTS |-> initPTS, timescale |-> 2, samples |-> samples] :
          initPTS \in {Undefined, 1},
          samples \in {<<>>, <<TextSample(5, 1)>>, <<TextSample(7, 1), TextSample(5, 2)>>,
                       <<TextSample(5, 1), TextSample(5, 2)>>}}

MaxRemuxes == 2

RemuxInit ==
  /\ data \in [id3Track : Id3Tracks, textTrack : TextTracks]
  /\ written \in [kind : {"tracks"}, audioTrack : BOOLEAN, videoTrack : BOOLEAN]
  /\ initData = <<>>
  /\ op = "none"
  /\ arg = <<>>
  /\ ret = <<>>
  /\ calls = 0

Remux ==
  /\ calls < MaxRemuxes
  /\ LET done == remux(written.audioTrack, written.videoTrack, data.id3Track, data.textTrack)
     IN /\ data' = [id3Track |-> done.id3Track, textTrack |-> done.textTrack]
        /\ ret' = [events |-> done.events, thrown |-> done.thrown]
  /\ arg' = data
  /\ op' = "remux"
  /\ calls' = calls + 1
  /\ UNCHANGED <<written, initData>>

RemuxNext == Remux

SpecRemux == RemuxInit /\ [][RemuxNext]_vars

\* the places of an event in the events of the call
Places(event) == {k \in 1..Len(ret.events) : ret.events[k].event = event}

HadSamples(track) == track # Null /\ Len(track.samples) > 0

\* the order of the events of a call that returned
EventsInOrder ==
  /\ Places(FRAG_PARSING_DATA) = {1}
  /\ Places(FRAG_PARSED) = {Len(ret.events)}
  /\ Len(ret.events) >= 2
  /\ Cardinality(Places(FRAG_PARSING_USERDATA)) <= 1
  /\ Cardinality(Places(FRAG_PARSING_METADATA)) <= 1
  /\ Places(FRAG_PARSING_USERDATA) # {} => HadSamples(arg.textTrack)
  /\ Places(FRAG_PARSING_METADATA) # {} => HadSamples(arg.id3Track)
  /\ \A u \in Places(FRAG_PARSING_USERDATA) : \A m \in Places(FRAG_PARSING_METADATA) : u < m
  /\ Places(FRAG_PARSING_METADATA) # {} => data.id3Track.samples = <<>>

\* C30: every call of remux triggers FRAG_PARSING_DATA once and first and
\* FRAG_PARSED once and last; FRAG_PARSING_USERDATA comes in between only when
\* the text track had samples, FRAG_PARSING_METADATA only when the id3 track
\* had samples, user data before metadata; after the metadata event the sample
\* list of the id3 track is empty
C30_EventOrder == op = "remux" => ~ret.thrown /\ EventsInOrder

\* the same for the calls that return
C30_EventOrderReturned == (op = "remux" /\ ~ret.thrown) => EventsInOrder

\* a call with text and id3 samples: four events, the text samples sorted
C30_ReturnedWitness ==
  /\ op = "remux"
  /\ ~ret.thrown
  /\ Len(ret.events) = 4
  /\ Len(arg.textTrack.samples) = 2
  /\ FracLess(arg.textTrack.samples[2].pts, arg.textTrack.samples[1].pts)
  /\ Len(arg.id3Track.samples) = 2
  /\ data.id3Track.samples = <<>>

\* a call over an id3 list with an undefined entry: no FRAG_PARSED
C30_ThrownWitness ==
  /\ op = "remux"
  /\ ret.thrown
  /\ Places(FRAG_PARSED) = {}
  /\ Places(FRAG_PARSING_DATA) = {1}

=============================================================================
